---- MODULE Spec2Model ----
(***************************************************************************)
(* Budget Enforcement Engine of bedrock-budgeteer: the budget ledger       *)
(* (DynamoDB user-budgets table), spend accrual (usage_calculator),        *)
(* provisioning (user_setup), the budget monitor, the suspension and       *)
(* restoration Step Functions state machines, the IAM utilities and the    *)
(* budget refresh sweep.                                                   *)
(*                                                                         *)
(* One principal is modelled.  Money is counted in whole dollars.  Time    *)
(* is kept relative to the current instant: a stored timestamp t is the    *)
(* integer t - now, so "now >= t" reads "t <= 0" and "now + d" reads "d";  *)
(* Tick shifts every stored timestamp down by one.                         *)
(***************************************************************************)
EXTENDS Integers, Sequences, FiniteSets, TLC

----------------------------------------------------------------------------
(* Bounds of the model *)

MaxCalls == 2          \* concurrent update_user_budget invocations
MaxCost == 2           \* largest cost of one usage event, in dollars
MaxSetups == 1         \* concurrent user_setup invocations
RefreshPeriodDays == 2 \* refresh_period_days, in ticks
MaxGrace == 2          \* largest grace_period_seconds, in ticks
MaxMonitors == 2       \* concurrent budget_monitor invocations
MaxSusp == 2           \* suspension executions in progress
MaxSweeps == 2         \* concurrent budget_refresh invocations
MaxRest == 2           \* restoration executions in progress
MaxRefreshCount == 2   \* cap of refresh_count
PastHorizon == 1       \* timestamps older than this are kept as this old
MaxTokens == 1000      \* largest token count of one invocation
MaxReconciliations == 2  \* state_reconciliation runs

(* Program constants *)

DefaultBudgetUsd == 5
WarnPercent == 70
CriticalPercent == 90

Models == {"m1", "m2"}
Calls == 1..MaxCalls
Setups == 1..MaxSetups
Monitors == 1..MaxMonitors
SuspExecs == 1..MaxSusp
Sweeps == 1..MaxSweeps
RestExecs == 1..MaxRest

----------------------------------------------------------------------------
VARIABLES
    budget,     \* the user-budgets item of the principal
    iam,        \* the IAM user: managed policy attachment and restriction tag
    grace_period_seconds, \* SSM parameter /bedrock-budgeteer/global/grace_period_seconds
    calls,      \* update_user_budget invocations
    setups,     \* user_setup invocations
    monitors,   \* budget_monitor invocations
    susp,       \* executions of the suspension state machine
    sweeps,     \* budget_refresh invocations
    rests,      \* executions of the restoration state machine
    h_created,  \* history: records created by create_basic_budget_record
    h_puts,     \* history: unconditional put_item calls of user_setup
    h_initial,  \* history: the item in the initial state
    h_grace_started,  \* history: grace periods started by start_grace_period
    h_grace_seconds,  \* history: grace_period_seconds read by the last start_grace_period
    pricing,    \* a calculate_cost_with_cache invocation
    event_records,   \* the records of the Firehose event, by position
    handler,         \* a usage_calculator lambda_handler invocation
    usage_tracking,  \* the usage-tracking table
    iam_call,        \* the last iam_utilities invocation and its result
    h_last_access,   \* history: the last apply_restriction or restore_access that returned 200
    published,       \* metrics published by state_reconciliation
    local_cache,     \* BedrockPricingCalculator._local_cache, by cache key
    cache_timestamp, \* BedrockPricingCalculator._cache_timestamp
    h_fetched_at     \* history: when the entry of a cache key was read from the table

accrueVars == <<calls, setups, h_created, h_puts, h_initial>>
enforceVars == <<monitors, susp, h_grace_started, h_grace_seconds>>
restoreVars == <<sweeps, rests>>
batchVars == <<event_records, handler, usage_tracking>>
usageVars == <<pricing, batchVars>>
accessVars == <<iam_call, h_last_access, published>>
cacheVars == <<local_cache, cache_timestamp, h_fetched_at>>
vars == <<budget, iam, grace_period_seconds, accrueVars, enforceVars, restoreVars,
          usageVars, accessVars, cacheVars>>

----------------------------------------------------------------------------
(* The ledger item *)

Now == 0

ZeroBreakdown == [m \in Models |-> 0]

NoItem ==
    [exists |-> FALSE, budget_limit_usd |-> 0, spent_usd |-> 0,
     status |-> "active", threshold_state |-> "normal",
     model_spend_breakdown |-> ZeroBreakdown,
     grace_deadline_epoch |-> <<>>, suspension_timestamp |-> <<>>,
     budget_period_start |-> 0, budget_refresh_date |-> 0,
     refresh_period_days |-> 0, refresh_count |-> 0,
     restoration_status |-> FALSE]

\* threshold classification of update_user_budget
ClassifyThreshold(spent_usd, budget_limit_usd) ==
    IF spent_usd * 100 >= budget_limit_usd * CriticalPercent THEN "critical"
    ELSE IF spent_usd * 100 >= budget_limit_usd * WarnPercent THEN "warning"
    ELSE "normal"

\* budget_item of create_basic_budget_record
BasicBudgetItem(initial_cost, model_id) ==
    [exists |-> TRUE, budget_limit_usd |-> DefaultBudgetUsd,
     spent_usd |-> initial_cost,
     status |-> "active", threshold_state |-> "normal",
     model_spend_breakdown |-> [ZeroBreakdown EXCEPT ![model_id] = initial_cost],
     grace_deadline_epoch |-> <<>>, suspension_timestamp |-> <<>>,
     budget_period_start |-> Now,
     budget_refresh_date |-> Now + RefreshPeriodDays,
     refresh_period_days |-> RefreshPeriodDays, refresh_count |-> 0,
     restoration_status |-> FALSE]

\* budget_item of user_setup
SetupBudgetItem ==
    [exists |-> TRUE, budget_limit_usd |-> DefaultBudgetUsd,
     spent_usd |-> 0,
     status |-> "active", threshold_state |-> "normal",
     model_spend_breakdown |-> ZeroBreakdown,
     grace_deadline_epoch |-> <<>>, suspension_timestamp |-> <<>>,
     budget_period_start |-> Now,
     budget_refresh_date |-> Now + RefreshPeriodDays,
     refresh_period_days |-> RefreshPeriodDays, refresh_count |-> 0,
     restoration_status |-> FALSE]

\* a mutant of IncrementSpend: SET spent_usd = :cost
IncrementSpend_overwrite(item, model_id, cost) ==
    [item EXCEPT !.spent_usd = cost,
                 !.model_spend_breakdown[model_id] = cost]

\* a mutant of IncrementSpend: reaching the limit starts the grace period
IncrementSpend_enforces(item, model_id, cost) ==
    [item EXCEPT !.spent_usd = @ + cost,
                 !.model_spend_breakdown[model_id] = @ + cost,
                 !.status = IF item.spent_usd + cost >= item.budget_limit_usd
                            THEN "grace_period" ELSE @]

\* the UpdateExpression of update_user_budget:
\* SET spent_usd = if_not_exists(spent_usd, :zero) + :cost,
\*     model_spend_breakdown.#model_id = if_not_exists(..., :zero) + :cost
IncrementSpend(item, model_id, cost) ==
    [item EXCEPT !.spent_usd = @ + cost,
                 !.model_spend_breakdown[model_id] = @ + cost]

\* ReturnValues='ALL_NEW': the attributes update_user_budget reads afterwards
Response(item) ==
    [spent_usd |-> item.spent_usd, budget_limit_usd |-> item.budget_limit_usd,
     threshold_state |-> item.threshold_state]

NoResponse == [spent_usd |-> 0, budget_limit_usd |-> 0, threshold_state |-> "normal"]

----------------------------------------------------------------------------
(* update_user_budget *)

\* the atomic update_item succeeds on an existing item
UpdateUserBudget_UpdateItem(c) ==
    /\ calls[c].pc = "update_item"
    /\ budget.exists
    /\ budget' = IncrementSpend(budget, calls[c].model_id, calls[c].cost)
    /\ calls' = [calls EXCEPT ![c].pc = "classify", ![c].response = Response(budget')]
    /\ UNCHANGED <<setups, h_created, h_puts, h_initial, iam, grace_period_seconds, cacheVars, accessVars, usageVars, enforceVars, restoreVars>>

\* update_item raises: the document path model_spend_breakdown.#model_id is
\* invalid on an item that does not exist
UpdateUserBudget_UpdateFails(c) ==
    /\ calls[c].pc = "update_item"
    /\ ~budget.exists
    /\ calls' = [calls EXCEPT ![c].pc = "create"]
    /\ UNCHANGED <<budget, setups, h_created, h_puts, h_initial, iam, grace_period_seconds, cacheVars, accessVars, usageVars, enforceVars, restoreVars>>

\* create_basic_budget_record: put_item with attribute_not_exists(principal_id)
CreateBasicBudgetRecord(c) ==
    /\ calls[c].pc = "create"
    /\ ~budget.exists
    /\ budget' = BasicBudgetItem(calls[c].cost, calls[c].model_id)
    /\ calls' = [calls EXCEPT ![c].pc = "done"]
    /\ h_created' = h_created + 1
    /\ UNCHANGED <<setups, h_puts, h_initial, iam, grace_period_seconds, cacheVars, accessVars, usageVars, enforceVars, restoreVars>>

\* the conditional put fails: create_error is caught and update_error re-raised
CreateBasicBudgetRecord_ConditionFails(c) ==
    /\ calls[c].pc = "create"
    /\ budget.exists
    /\ calls' = [calls EXCEPT ![c].pc = "failed"]
    /\ UNCHANGED <<budget, setups, h_created, h_puts, h_initial, iam, grace_period_seconds, cacheVars, accessVars, usageVars, enforceVars, restoreVars>>

\* the threshold-state update after the increment
UpdateUserBudget_ThresholdState(c) ==
    /\ calls[c].pc = "classify"
    /\ LET r == calls[c].response
           new_threshold_state == ClassifyThreshold(r.spent_usd, r.budget_limit_usd)
       IN IF new_threshold_state # r.threshold_state
          THEN /\ budget' = [budget EXCEPT !.threshold_state = new_threshold_state]
               \* percent_used divides by budget_limit_usd
               /\ calls' = [calls EXCEPT ![c].pc =
                               IF r.budget_limit_usd = 0 THEN "failed" ELSE "done"]
          ELSE /\ calls' = [calls EXCEPT ![c].pc = "done"]
               /\ UNCHANGED budget
    /\ UNCHANGED <<setups, h_created, h_puts, h_initial, iam, grace_period_seconds, cacheVars, accessVars, usageVars, enforceVars, restoreVars>>

\* the update_item of the threshold state raises after the increment has been
\* applied: update_user_budget logs and re-raises
UpdateUserBudget_ThresholdState_Fails(c) ==
    /\ calls[c].pc = "classify"
    /\ LET r == calls[c].response
       IN ClassifyThreshold(r.spent_usd, r.budget_limit_usd) # r.threshold_state
    /\ calls' = [calls EXCEPT ![c].pc = "failed"]
    /\ UNCHANGED <<budget, setups, h_created, h_puts, h_initial, iam, grace_period_seconds, cacheVars, accessVars, usageVars, enforceVars, restoreVars>>

----------------------------------------------------------------------------
(* user_setup *)

UserSetup_GetItem(s) ==
    /\ setups[s] = "get_item"
    /\ setups' = [setups EXCEPT ![s] = IF budget.exists THEN "done" ELSE "put_item"]
    /\ UNCHANGED <<budget, calls, h_created, h_puts, h_initial, iam, grace_period_seconds, cacheVars, accessVars, usageVars, enforceVars, restoreVars>>

UserSetup_PutItem(s) ==
    /\ setups[s] = "put_item"
    /\ budget' = SetupBudgetItem
    /\ setups' = [setups EXCEPT ![s] = "done"]
    /\ h_puts' = h_puts + 1
    /\ UNCHANGED <<calls, h_created, h_initial, iam, grace_period_seconds, cacheVars, accessVars, usageVars, enforceVars, restoreVars>>

----------------------------------------------------------------------------
(* Time *)

Shift(t) == IF t > -PastHorizon THEN t - 1 ELSE t

ShiftOpt(epoch) == IF epoch = <<>> THEN <<>> ELSE <<Shift(epoch[1])>>

ShiftItem(item) ==
    IF ~item.exists THEN item
    ELSE [item EXCEPT !.grace_deadline_epoch = ShiftOpt(@),
                      !.suspension_timestamp = ShiftOpt(@),
                      !.budget_period_start = Shift(@),
                      !.budget_refresh_date = Shift(@)]

----------------------------------------------------------------------------
(* budget_monitor *)

\* a mutant of MonitorView: the grace deadline of the item is not read
MonitorView_noDeadline(item) ==
    [spent_usd |-> item.spent_usd, budget_limit_usd |-> item.budget_limit_usd,
     status |-> item.status, grace_deadline_epoch |-> <<>>]

\* the attributes the monitor reads from a scanned item
MonitorView(item) ==
    [spent_usd |-> item.spent_usd, budget_limit_usd |-> item.budget_limit_usd,
     status |-> item.status, grace_deadline_epoch |-> item.grace_deadline_epoch]

NoView ==
    [spent_usd |-> 0, budget_limit_usd |-> 0, status |-> "active",
     grace_deadline_epoch |-> <<>>]

IdleMonitor == [pc |-> "idle", item |-> NoView]
OffMonitor == [pc |-> "off", item |-> NoView]

\* a mutant of MonitorSkips: the status is not looked at
MonitorSkips_limitOnly(item) ==
    item.budget_limit_usd = 0

\* the SSM parameter /bedrock-budgeteer/global/grace_period_seconds is changed
ChangeGracePeriodSeconds ==
    /\ \E seconds \in 1..MaxGrace :
          /\ seconds # grace_period_seconds
          /\ grace_period_seconds' = seconds
    /\ UNCHANGED <<budget, iam, cacheVars, usageVars, accessVars, accrueVars, enforceVars,
                   restoreVars>>

\* "Skip if already suspended or not active"
MonitorSkips(item) ==
    item.status \in {"suspended", "restricted"} \/ item.budget_limit_usd = 0

\* budget_usage_percent >= 100.0
BudgetExceeded(item) ==
    /\ item.budget_limit_usd > 0
    /\ item.spent_usd * 100 >= 100 * item.budget_limit_usd

SuspTerminal == {"SuspensionSuccess", "SuspensionFailed", "ExecutionFailed"}

FreeSusp ==
    [pc |-> "free", grace_period_seconds |-> 0, wait_until |-> 0,
     suspension_result |-> 0, trace |-> <<>>]

\* a slot the model does not use
OffSusp == [FreeSusp EXCEPT !.pc = "off"]

\* the input the SuspensionWorkflowTrigger rule builds from the event
NewSuspension(seconds) ==
    [pc |-> "SendGraceNotification", grace_period_seconds |-> seconds,
     wait_until |-> 0, suspension_result |-> 0, trace |-> <<>>]

SuspAvailable == {e \in SuspExecs : susp[e].pc \in {"free"} \cup SuspTerminal}

\* trigger_suspension_workflow: the 'Suspension Workflow Required' event
\* starts an execution of the suspension state machine
TriggerSuspensionWorkflow ==
    /\ SuspAvailable # {}
    /\ LET e == CHOOSE x \in SuspAvailable : \A y \in SuspAvailable : x <= y
       IN susp' = [susp EXCEPT ![e] = NewSuspension(grace_period_seconds)]

BudgetMonitor_Scan(m) ==
    /\ monitors[m].pc = "idle"
    /\ budget.exists
    /\ monitors' = [monitors EXCEPT ![m] = [pc |-> "scanned", item |-> MonitorView(budget)]]
    /\ UNCHANGED <<budget, iam, grace_period_seconds, cacheVars, accessVars, usageVars, accrueVars, susp,
                   h_grace_started, h_grace_seconds, restoreVars>>

BudgetMonitor_NotExceeded(m) ==
    /\ monitors[m].pc = "scanned"
    /\ MonitorSkips(monitors[m].item) \/ ~BudgetExceeded(monitors[m].item)
    /\ monitors' = [monitors EXCEPT ![m] = IdleMonitor]
    /\ UNCHANGED <<budget, iam, grace_period_seconds, cacheVars, accessVars, usageVars, accrueVars, susp,
                   h_grace_started, h_grace_seconds, restoreVars>>

\* a mutant of StartGracePeriodUpdate: the deadline is the current time
StartGracePeriodUpdate_noDelay(item, seconds) ==
    [item EXCEPT !.grace_deadline_epoch = <<Now>>,
                 !.status = "grace_period"]

\* the update_item of start_grace_period
StartGracePeriodUpdate(item, seconds) ==
    [item EXCEPT !.grace_deadline_epoch = <<Now + seconds>>,
                 !.status = "grace_period"]

BudgetMonitor_StartGracePeriod(m) ==
    /\ monitors[m].pc = "scanned"
    /\ ~MonitorSkips(monitors[m].item) /\ BudgetExceeded(monitors[m].item)
    /\ monitors[m].item.grace_deadline_epoch = <<>>
    /\ budget' = StartGracePeriodUpdate(budget, grace_period_seconds)
    /\ h_grace_started' = h_grace_started + 1
    /\ h_grace_seconds' = grace_period_seconds
    /\ monitors' = [monitors EXCEPT ![m] = IdleMonitor]
    /\ UNCHANGED <<iam, grace_period_seconds, cacheVars, accessVars, usageVars, accrueVars, susp, restoreVars>>

\* the update_item of start_grace_period raises: immediate suspension
BudgetMonitor_StartGracePeriod_Fails(m) ==
    /\ monitors[m].pc = "scanned"
    /\ ~MonitorSkips(monitors[m].item) /\ BudgetExceeded(monitors[m].item)
    /\ monitors[m].item.grace_deadline_epoch = <<>>
    /\ TriggerSuspensionWorkflow
    /\ monitors' = [monitors EXCEPT ![m] = IdleMonitor]
    /\ UNCHANGED <<budget, iam, grace_period_seconds, cacheVars, accessVars, usageVars, accrueVars,
                   h_grace_started, h_grace_seconds, restoreVars>>

BudgetMonitor_StillInGrace(m) ==
    /\ monitors[m].pc = "scanned"
    /\ ~MonitorSkips(monitors[m].item) /\ BudgetExceeded(monitors[m].item)
    /\ monitors[m].item.grace_deadline_epoch # <<>>
    /\ ~(Now >= monitors[m].item.grace_deadline_epoch[1])
    /\ monitors' = [monitors EXCEPT ![m] = IdleMonitor]
    /\ UNCHANGED <<budget, iam, grace_period_seconds, cacheVars, accessVars, usageVars, accrueVars, susp,
                   h_grace_started, h_grace_seconds, restoreVars>>

BudgetMonitor_GraceExpired(m) ==
    /\ monitors[m].pc = "scanned"
    /\ ~MonitorSkips(monitors[m].item) /\ BudgetExceeded(monitors[m].item)
    /\ monitors[m].item.grace_deadline_epoch # <<>>
    /\ Now >= monitors[m].item.grace_deadline_epoch[1]
    /\ TriggerSuspensionWorkflow
    /\ monitors' = [monitors EXCEPT ![m] = IdleMonitor]
    /\ UNCHANGED <<budget, iam, grace_period_seconds, cacheVars, accessVars, usageVars, accrueVars,
                   h_grace_started, h_grace_seconds, restoreVars>>

----------------------------------------------------------------------------
(* The suspension state machine *)

\* a mutant of SuspensionDefinition: the status update precedes the suspension
SuspensionDefinition_markFirst(state) ==
    CASE state = "SendGraceNotification" -> "GracePeriodWait"
      [] state = "GracePeriodWait" -> "SendFinalWarning"
      [] state = "SendFinalWarning" -> "UpdateUserStatus"
      [] state = "UpdateUserStatus" -> "ApplyFullSuspension"
      [] state = "ApplyFullSuspension" -> "SuspensionSuccess"

\* definition = send_grace_notification.next(grace_period_wait.next(...))
SuspensionDefinition(state) ==
    CASE state = "SendGraceNotification" -> "GracePeriodWait"
      [] state = "GracePeriodWait" -> "SendFinalWarning"
      [] state = "SendFinalWarning" -> "ApplyFullSuspension"
      [] state = "ApplyFullSuspension" -> "UpdateUserStatus"
      [] state = "UpdateUserStatus" -> "SuspensionSuccess"

\* add_error_handling(apply_full_suspension, suspension_failure); a task
\* without a catch fails the execution
SuspensionCatch(state) ==
    IF state = "ApplyFullSuspension" THEN "SuspensionFailed" ELSE "ExecutionFailed"

\* the execution leaves `state` for the next state of the definition
SuspStep(e, state) ==
    [susp[e] EXCEPT !.pc = SuspensionDefinition(state),
                    !.trace = Append(@, state)]

\* the Lambda invocation of a task state fails (timeout, service error)
SuspTaskFails(e, state) ==
    [susp[e] EXCEPT !.pc = SuspensionCatch(state),
                    !.trace = Append(@, state)]

\* sfn.Wait(time=WaitTime.seconds_path("$.grace_period_seconds"))
WaitElapsed(e) == Now >= susp[e].wait_until

\* the grace_period Lambda returns a result (statusCode 200 or 500) either way
Susp_SendGraceNotification(e) ==
    /\ susp[e].pc = "SendGraceNotification"
    /\ susp' = [susp EXCEPT ![e] =
                  [SuspStep(e, "SendGraceNotification") EXCEPT
                      !.wait_until = Now + susp[e].grace_period_seconds]]
    /\ UNCHANGED <<budget, iam, grace_period_seconds, cacheVars, accessVars, usageVars, accrueVars, monitors,
                   h_grace_started, h_grace_seconds, restoreVars>>

Susp_GracePeriodWait(e) ==
    /\ susp[e].pc = "GracePeriodWait"
    /\ WaitElapsed(e)
    /\ susp' = [susp EXCEPT ![e] = SuspStep(e, "GracePeriodWait")]
    /\ UNCHANGED <<budget, iam, grace_period_seconds, cacheVars, accessVars, usageVars, accrueVars, monitors,
                   h_grace_started, h_grace_seconds, restoreVars>>

Susp_SendFinalWarning(e) ==
    /\ susp[e].pc = "SendFinalWarning"
    /\ susp' = [susp EXCEPT ![e] = SuspStep(e, "SendFinalWarning")]
    /\ UNCHANGED <<budget, iam, grace_period_seconds, cacheVars, accessVars, usageVars, accrueVars, monitors,
                   h_grace_started, h_grace_seconds, restoreVars>>

\* a notification task's Lambda invocation fails: no catch, the execution fails
Susp_Notification_TaskFails(e) ==
    /\ susp[e].pc \in {"SendGraceNotification", "SendFinalWarning"}
    /\ susp' = [susp EXCEPT ![e] = SuspTaskFails(e, susp[e].pc)]
    /\ UNCHANGED <<budget, iam, grace_period_seconds, cacheVars, accessVars, usageVars, accrueVars, monitors,
                   h_grace_started, h_grace_seconds, restoreVars>>

\* apply_bedrock_restriction: detach_user_policy succeeds, or the policy was
\* not attached (NoSuchEntity); the principal is tagged
Susp_ApplyFullSuspension(e) ==
    /\ susp[e].pc = "ApplyFullSuspension"
    /\ iam' = [attached |-> FALSE, tagged |-> TRUE]
    /\ susp' = [susp EXCEPT ![e] =
                  [SuspStep(e, "ApplyFullSuspension") EXCEPT !.suspension_result = 200]]
    /\ UNCHANGED <<budget, grace_period_seconds, cacheVars, accessVars, usageVars, accrueVars, monitors,
                   h_grace_started, h_grace_seconds, restoreVars>>

\* detach_user_policy raises: lambda_handler catches the exception and
\* returns statusCode 500, so the task succeeds
Susp_ApplyFullSuspension_Error(e) ==
    /\ susp[e].pc = "ApplyFullSuspension"
    /\ susp' = [susp EXCEPT ![e] =
                  [SuspStep(e, "ApplyFullSuspension") EXCEPT !.suspension_result = 500]]
    /\ UNCHANGED <<budget, iam, grace_period_seconds, cacheVars, accessVars, usageVars, accrueVars, monitors,
                   h_grace_started, h_grace_seconds, restoreVars>>

\* the Lambda invocation itself fails: Catch States.ALL -> SuspensionFailed
Susp_ApplyFullSuspension_TaskFails(e) ==
    /\ susp[e].pc = "ApplyFullSuspension"
    /\ \E detached \in BOOLEAN :
          iam' = IF detached THEN [iam EXCEPT !.attached = FALSE] ELSE iam
    /\ susp' = [susp EXCEPT ![e] = SuspTaskFails(e, "ApplyFullSuspension")]
    /\ UNCHANGED <<budget, grace_period_seconds, cacheVars, accessVars, usageVars, accrueVars, monitors,
                   h_grace_started, h_grace_seconds, restoreVars>>

\* UpdateUserStatus: SET #status = :status, suspension_timestamp = :timestamp
Susp_UpdateUserStatus(e) ==
    /\ susp[e].pc = "UpdateUserStatus"
    /\ budget' = [budget EXCEPT !.status = "suspended",
                                !.suspension_timestamp = <<Now>>]
    /\ susp' = [susp EXCEPT ![e] = SuspStep(e, "UpdateUserStatus")]
    /\ UNCHANGED <<iam, grace_period_seconds, cacheVars, accessVars, usageVars, accrueVars, monitors,
                   h_grace_started, h_grace_seconds, restoreVars>>

----------------------------------------------------------------------------
(* budget_refresh *)

\* the attributes the refresh sweep reads from a scanned item
RefreshView(item) ==
    [status |-> item.status, budget_refresh_date |-> item.budget_refresh_date,
     refresh_period_days |-> item.refresh_period_days]

NoRefreshView == [status |-> "active", budget_refresh_date |-> 0, refresh_period_days |-> 0]

IdleSweep == [pc |-> "idle", current_time |-> 0, item |-> NoRefreshView]
OffSweep == [pc |-> "off", current_time |-> 0, item |-> NoRefreshView]

\* "if current_time >= refresh_date"
RefreshDue(w) == sweeps[w].current_time >= sweeps[w].item.budget_refresh_date

RestTerminal ==
    {"RestorationSuccess", "ValidationFailed", "RestorationFailed", "ExecutionFailed"}

NoValidation ==
    [is_valid |-> FALSE, user_exists |-> FALSE, refresh_period_reached |-> FALSE,
     next_refresh_date |-> <<>>]

\* history: what the item was when the validation read it
Seen(item) ==
    [exists |-> item.exists, status |-> item.status,
     due |-> Now >= item.budget_refresh_date,
     refresh_period_days |-> item.refresh_period_days]

\* h_seen, h_validated_at: history, the item the validation read and when
FreeRest ==
    [pc |-> "free", validation_result |-> NoValidation, restore_result |-> 0,
     h_seen |-> Seen(NoItem), h_validated_at |-> 0]

\* a slot the model does not use
OffRest == [FreeRest EXCEPT !.pc = "off"]

\* the input the AutomaticRestorationWorkflowTrigger rule builds from the event
NewRestoration == [FreeRest EXCEPT !.pc = "ValidateAutomaticRestoration"]

RestAvailable == {r \in RestExecs : rests[r].pc \in {"free"} \cup RestTerminal}

\* the 'Automatic User Restoration Required' event starts an execution of
\* the restoration state machine
TriggerRestorationWorkflow ==
    /\ RestAvailable # {}
    /\ LET r == CHOOSE x \in RestAvailable : \A y \in RestAvailable : x <= y
       IN rests' = [rests EXCEPT ![r] = NewRestoration]

\* a mutant of RefreshBranch: every status but suspended is reset in place
RefreshBranch_elseReset(status) ==
    IF status = "suspended" THEN "restore" ELSE "reset"

\* what budget_refresh does with an item whose refresh date is reached:
\* if status == 'suspended' ... elif status == 'active' ...
RefreshBranch(status) ==
    IF status = "suspended" THEN "restore"
    ELSE IF status = "active" THEN "reset"
    ELSE "none"

\* current_time is taken when the handler starts and the table is scanned
BudgetRefresh_Scan(w) ==
    /\ sweeps[w].pc = "idle"
    /\ budget.exists
    /\ sweeps' = [sweeps EXCEPT ![w] =
                    [pc |-> "scanned", current_time |-> Now, item |-> RefreshView(budget)]]
    /\ UNCHANGED <<budget, iam, grace_period_seconds, cacheVars, accessVars, usageVars, accrueVars, enforceVars, rests>>

\* the refresh date is not reached, or the status is neither suspended nor active
BudgetRefresh_NothingToDo(w) ==
    /\ sweeps[w].pc = "scanned"
    /\ ~RefreshDue(w) \/ RefreshBranch(sweeps[w].item.status) = "none"
    /\ sweeps' = [sweeps EXCEPT ![w] = IdleSweep]
    /\ UNCHANGED <<budget, iam, grace_period_seconds, cacheVars, accessVars, usageVars, accrueVars, enforceVars, rests>>

BudgetRefresh_TriggerRestoration(w) ==
    /\ sweeps[w].pc = "scanned"
    /\ RefreshDue(w)
    /\ RefreshBranch(sweeps[w].item.status) = "restore"
    /\ TriggerRestorationWorkflow
    /\ sweeps' = [sweeps EXCEPT ![w] = IdleSweep]
    /\ UNCHANGED <<budget, iam, grace_period_seconds, cacheVars, accessVars, usageVars, accrueVars, enforceVars>>

\* the update_item that refreshes the budget of an active user
RefreshActiveUpdate(item, current_time, refresh_period_days) ==
    [item EXCEPT !.spent_usd = 0,
                 !.budget_period_start = current_time,
                 !.budget_refresh_date = current_time + refresh_period_days,
                 !.refresh_count = @ + 1]

BudgetRefresh_RefreshActive(w) ==
    /\ sweeps[w].pc = "scanned"
    /\ RefreshDue(w)
    /\ RefreshBranch(sweeps[w].item.status) = "reset"
    /\ budget.refresh_count < MaxRefreshCount
    /\ budget' = RefreshActiveUpdate(budget, sweeps[w].current_time,
                                     sweeps[w].item.refresh_period_days)
    /\ sweeps' = [sweeps EXCEPT ![w] = IdleSweep]
    /\ UNCHANGED <<iam, grace_period_seconds, cacheVars, accessVars, usageVars, accrueVars, enforceVars, rests>>

----------------------------------------------------------------------------
(* The restoration state machine *)

\* a mutant of ValidateAutomaticRestorationRequest: the status is not checked
ValidateAutomaticRestorationRequest_anyStatus(item) ==
    IF ~item.exists THEN NoValidation
    ELSE IF Now >= item.budget_refresh_date
    THEN [is_valid |-> TRUE, user_exists |-> TRUE, refresh_period_reached |-> TRUE,
          next_refresh_date |-> <<Now + item.refresh_period_days>>]
    ELSE [NoValidation EXCEPT !.user_exists = TRUE]

\* a mutant of ValidateAutomaticRestorationRequest: an active user passes the
\* status check as well
ValidateAutomaticRestorationRequest_activeToo(item) ==
    IF ~item.exists THEN NoValidation
    ELSE IF item.status \notin {"suspended", "active"}
    THEN [NoValidation EXCEPT !.user_exists = TRUE]
    ELSE IF Now >= item.budget_refresh_date
    THEN [is_valid |-> TRUE, user_exists |-> TRUE, refresh_period_reached |-> TRUE,
          next_refresh_date |-> <<Now + item.refresh_period_days>>]
    ELSE [NoValidation EXCEPT !.user_exists = TRUE]

\* validate_automatic_restoration_request
ValidateAutomaticRestorationRequest(item) ==
    IF ~item.exists THEN NoValidation
    ELSE IF item.status # "suspended" THEN [NoValidation EXCEPT !.user_exists = TRUE]
    ELSE IF Now >= item.budget_refresh_date
    THEN [is_valid |-> TRUE, user_exists |-> TRUE, refresh_period_reached |-> TRUE,
          next_refresh_date |-> <<Now + item.refresh_period_days>>]
    ELSE [NoValidation EXCEPT !.user_exists = TRUE]

\* validation_choice.when(is_valid == False, validation_failed).otherwise(...)
ValidationChoice(validation_result) ==
    IF validation_result.is_valid = FALSE THEN "ValidationFailed" ELSE "RestoreAccess"

\* definition of the states after the choice
RestorationDefinition(state) ==
    CASE state = "RestoreAccess" -> "ValidateAccessRestoration"
      [] state = "ValidateAccessRestoration" -> "ResetBudgetStatus"
      [] state = "ResetBudgetStatus" -> "LogRestorationAudit"
      [] state = "LogRestorationAudit" -> "SendRestorationNotification"
      [] state = "SendRestorationNotification" -> "RestorationSuccess"

\* add_error_handling(restore_access, ...), add_error_handling(reset_budget_status, ...)
RestorationCatch(state) ==
    IF state \in {"RestoreAccess", "ResetBudgetStatus"}
    THEN "RestorationFailed" ELSE "ExecutionFailed"

\* ValidateAutomaticRestoration followed by ValidationChoice; a valid request
\* is marked on the item by update_restoration_status
Rest_ValidateAutomaticRestoration(r) ==
    /\ rests[r].pc = "ValidateAutomaticRestoration"
    /\ LET result == ValidateAutomaticRestorationRequest(budget)
       IN /\ rests' = [rests EXCEPT ![r] =
                          [@ EXCEPT !.pc = ValidationChoice(result),
                                    !.validation_result = result,
                                    !.h_seen = Seen(budget),
                                    !.h_validated_at = Now]]
          /\ budget' = IF result.is_valid
                       THEN [budget EXCEPT !.restoration_status = TRUE]
                       ELSE budget
    /\ UNCHANGED <<iam, grace_period_seconds, cacheVars, accessVars, usageVars, accrueVars, enforceVars, sweeps>>

\* get_item raises inside the validation: the handler answers is_valid False
Rest_ValidateAutomaticRestoration_Error(r) ==
    /\ rests[r].pc = "ValidateAutomaticRestoration"
    /\ rests' = [rests EXCEPT ![r] =
                    [@ EXCEPT !.pc = ValidationChoice(NoValidation),
                              !.validation_result = NoValidation,
                              !.h_seen = Seen(budget),
                              !.h_validated_at = Now]]
    /\ UNCHANGED <<budget, iam, grace_period_seconds, cacheVars, accessVars, usageVars, accrueVars, enforceVars, sweeps>>

\* restore_bedrock_access: attach_user_policy, remove_restriction_tags
Rest_RestoreAccess(r) ==
    /\ rests[r].pc = "RestoreAccess"
    /\ iam' = [attached |-> TRUE, tagged |-> FALSE]
    /\ rests' = [rests EXCEPT ![r] =
                    [@ EXCEPT !.pc = RestorationDefinition("RestoreAccess"),
                              !.restore_result = 200]]
    /\ UNCHANGED <<budget, grace_period_seconds, cacheVars, accessVars, usageVars, accrueVars, enforceVars, sweeps>>

\* attach_user_policy raises: lambda_handler returns statusCode 500 and the
\* task succeeds
Rest_RestoreAccess_Error(r) ==
    /\ rests[r].pc = "RestoreAccess"
    /\ rests' = [rests EXCEPT ![r] =
                    [@ EXCEPT !.pc = RestorationDefinition("RestoreAccess"),
                              !.restore_result = 500]]
    /\ UNCHANGED <<budget, iam, grace_period_seconds, cacheVars, accessVars, usageVars, accrueVars, enforceVars, sweeps>>

\* the Lambda invocation itself fails: Catch States.ALL -> RestorationFailed
Rest_RestoreAccess_TaskFails(r) ==
    /\ rests[r].pc = "RestoreAccess"
    /\ rests' = [rests EXCEPT ![r] = [@ EXCEPT !.pc = RestorationCatch("RestoreAccess")]]
    /\ UNCHANGED <<budget, iam, grace_period_seconds, cacheVars, accessVars, usageVars, accrueVars, enforceVars, sweeps>>

\* validate_restrictions reads the attached policies and changes nothing
Rest_ValidateAccessRestoration(r) ==
    /\ rests[r].pc = "ValidateAccessRestoration"
    /\ rests' = [rests EXCEPT ![r] =
                    [@ EXCEPT !.pc = RestorationDefinition("ValidateAccessRestoration")]]
    /\ UNCHANGED <<budget, iam, grace_period_seconds, cacheVars, accessVars, usageVars, accrueVars, enforceVars, sweeps>>

\* a mutant of ResetBudgetStatusUpdate: the refresh date is left as it was
ResetBudgetStatusUpdate_sameDate(item, next_refresh) ==
    [item EXCEPT !.exists = TRUE,
                 !.status = "active",
                 !.spent_usd = 0,
                 !.threshold_state = "normal",
                 !.budget_period_start = Now,
                 !.restoration_status = FALSE]

\* the update of ResetBudgetStatus
ResetBudgetStatusUpdate(item, next_refresh) ==
    [item EXCEPT !.exists = TRUE,
                 !.status = "active",
                 !.spent_usd = 0,
                 !.threshold_state = "normal",
                 !.budget_period_start = Now,
                 !.budget_refresh_date = next_refresh,
                 !.restoration_status = FALSE]

Rest_ResetBudgetStatus(r) ==
    /\ rests[r].pc = "ResetBudgetStatus"
    /\ budget' = ResetBudgetStatusUpdate(budget, rests[r].validation_result.next_refresh_date[1])
    /\ rests' = [rests EXCEPT ![r] =
                    [@ EXCEPT !.pc = RestorationDefinition("ResetBudgetStatus")]]
    /\ UNCHANGED <<iam, grace_period_seconds, cacheVars, accessVars, usageVars, accrueVars, enforceVars, sweeps>>

\* the DynamoDB call fails: Catch States.ALL -> RestorationFailed
Rest_ResetBudgetStatus_TaskFails(r) ==
    /\ rests[r].pc = "ResetBudgetStatus"
    /\ rests' = [rests EXCEPT ![r] = [@ EXCEPT !.pc = RestorationCatch("ResetBudgetStatus")]]
    /\ UNCHANGED <<budget, iam, grace_period_seconds, cacheVars, accessVars, usageVars, accrueVars, enforceVars, sweeps>>

\* LogRestorationAudit, then SendRestorationNotification
Rest_LogRestorationAudit(r) ==
    /\ rests[r].pc = "LogRestorationAudit"
    /\ rests' = [rests EXCEPT ![r] =
                    [@ EXCEPT !.pc = RestorationDefinition("LogRestorationAudit")]]
    /\ UNCHANGED <<budget, iam, grace_period_seconds, cacheVars, accessVars, usageVars, accrueVars, enforceVars, sweeps>>

Rest_SendRestorationNotification(r) ==
    /\ rests[r].pc = "SendRestorationNotification"
    /\ rests' = [rests EXCEPT ![r] =
                    [@ EXCEPT !.pc = RestorationDefinition("SendRestorationNotification")]]
    /\ UNCHANGED <<budget, iam, grace_period_seconds, cacheVars, accessVars, usageVars, accrueVars, enforceVars, sweeps>>

----------------------------------------------------------------------------
(* The clock *)

ShiftMonitor(mon) ==
    [mon EXCEPT !.item.grace_deadline_epoch = ShiftOpt(@)]

ShiftSusp(exec) ==
    [exec EXCEPT !.wait_until = Shift(@)]

ShiftSweep(sweep) ==
    [sweep EXCEPT !.current_time = Shift(@), !.item.budget_refresh_date = Shift(@)]

ShiftRest(exec) ==
    [exec EXCEPT !.validation_result.next_refresh_date = ShiftOpt(@),
                 !.h_validated_at = Shift(@)]

\* a budget_refresh invocation and a restoration execution that has validated
\* finish within PastHorizon ticks (Lambda timeout, state machine timeout)
TickAllowed ==
    /\ \A w \in Sweeps :
          sweeps[w].pc = "scanned" => sweeps[w].current_time > -PastHorizon
    /\ \A r \in RestExecs :
          rests[r].pc \notin ({"free", "off", "ValidateAutomaticRestoration"} \cup RestTerminal)
              => rests[r].h_validated_at > -PastHorizon

\* one unit of time passes
Tick ==
    /\ TickAllowed
    /\ budget' = ShiftItem(budget)
    /\ monitors' = [m \in Monitors |-> ShiftMonitor(monitors[m])]
    /\ susp' = [e \in SuspExecs |-> ShiftSusp(susp[e])]
    /\ sweeps' = [w \in Sweeps |-> ShiftSweep(sweeps[w])]
    /\ rests' = [r \in RestExecs |-> ShiftRest(rests[r])]
    /\ UNCHANGED <<iam, grace_period_seconds, cacheVars, accessVars, usageVars, accrueVars, h_grace_started, h_grace_seconds>>

----------------------------------------------------------------------------
(* Pricing: BedrockPricingCalculator *)

\* Rates are counted in millionths of a dollar per 1000 tokens (0.003 is
\* 3000), costs in 1/10^10 of a dollar, so that a tenth of a rate per token is
\* a whole number: (tokens / 1000) * rate is tokens * rate * 10.
Rates(input, output) ==
    [input_tokens_per_1000 |-> input, output_tokens_per_1000 |-> output]

\* model_pricing of _get_fallback_pricing, in the order of the dict (three of
\* its keys)
FallbackTable ==
    << [key |-> <<"claude-3-opus">>, rates |-> Rates(15000, 75000)],
       [key |-> <<"claude-3-sonnet">>, rates |-> Rates(3000, 15000)],
       [key |-> <<"claude-3-haiku">>, rates |-> Rates(250, 1250)] >>

\* the default of model_pricing.get(model_key, {...})
DefaultFallbackRates == Rates(3000, 15000)

\* model ids as sequences of parts: a key of the table, a key inside an ARN or
\* behind a region prefix, and ids no key is part of
PricingModelIds ==
    { <<"claude-3-opus">>, <<"arn:", "claude-3-haiku">>,
      <<"us.", "claude-3-sonnet", ":0">>, <<"amazon.titan">> }

Regions == {"us-east-1", "eu-west-1"}

\* items the pricing table can hold for a (model_id, region)
TableRates == {Rates(3000, 15000), Rates(800, 4000), Rates(0, 0)}

\* `key in model_id`
IsSubstring(key, model_id) ==
    \E i \in 0..(Len(model_id) - Len(key)) :
        SubSeq(model_id, i + 1, i + Len(key)) = key

\* a mutant of GetFallbackPricing: an id without a key has no rates
GetFallbackPricing_noDefault(model_id) ==
    LET matches == {i \in 1..Len(FallbackTable) :
                       IsSubstring(FallbackTable[i].key, model_id)}
    IN IF matches = {} THEN Rates(-1, -1)
       ELSE FallbackTable[CHOOSE i \in matches : \A j \in matches : i <= j].rates

\* _get_fallback_pricing: the first key that is part of the model id, else
\* the default
GetFallbackPricing(model_id) ==
    LET matches == {i \in 1..Len(FallbackTable) :
                       IsSubstring(FallbackTable[i].key, model_id)}
    IN IF matches = {} THEN DefaultFallbackRates
       ELSE FallbackTable[CHOOSE i \in matches : \A j \in matches : i <= j].rates

\* a mutant of CalculateCostWithCache: cache reads at the full input rate
CalculateCostWithCache_fullRate(rates, input_tokens, output_tokens, cache_creation_tokens, cache_read_tokens) ==
    LET input_cost == input_tokens * rates.input_tokens_per_1000 * 10
        output_cost == output_tokens * rates.output_tokens_per_1000 * 10
        cache_creation_cost == cache_creation_tokens * rates.input_tokens_per_1000 * 10
        cache_read_cost == cache_read_tokens * rates.input_tokens_per_1000 * 10
    IN input_cost + output_cost + cache_creation_cost + cache_read_cost

\* calculate_cost_with_cache after get_model_pricing
CalculateCostWithCache(rates, input_tokens, output_tokens, cache_creation_tokens, cache_read_tokens) ==
    LET input_cost == input_tokens * rates.input_tokens_per_1000 * 10
        output_cost == output_tokens * rates.output_tokens_per_1000 * 10
        cache_creation_cost == cache_creation_tokens * rates.input_tokens_per_1000 * 10
        cache_read_cost == cache_read_tokens * rates.input_tokens_per_1000
    IN input_cost + output_cost + cache_creation_cost + cache_read_cost

NoRates == Rates(0, 0)

\* a calculate_cost_with_cache invocation that has not been made
NoPricing ==
    [pc |-> "off", model_id |-> <<>>, region |-> "us-east-1",
     input_tokens |-> 0, output_tokens |-> 0,
     cache_creation_tokens |-> 0, cache_read_tokens |-> 0,
     source |-> "none", rates |-> NoRates, cost |-> 0]

\* _cache_ttl = 300, in seconds
CacheTtl == 300

\* cache_key = f"{model_id}-{region}"
CacheKey(model_id, region) == model_id \o <<"-", region>>

CacheKeys == {CacheKey(m, g) : m \in PricingModelIds, g \in Regions}

\* the class attributes of a new execution environment
CacheOff ==
    /\ local_cache = [k \in CacheKeys |-> <<>>]
    /\ cache_timestamp = <<>>
    /\ h_fetched_at = [k \in CacheKeys |-> <<>>]

\* "if (cls._cache_timestamp and (current_time - cls._cache_timestamp)
\*      .total_seconds() < cls._cache_ttl and cache_key in cls._local_cache)"
CacheValid(cache_key) ==
    /\ cache_timestamp # <<>>
    /\ (Now - cache_timestamp[1]) < CacheTtl
    /\ local_cache[cache_key] # <<>>

\* get_model_pricing: the entry of the local cache is returned
GetModelPricing_Cached ==
    /\ pricing.pc = "get_model_pricing"
    /\ CacheValid(CacheKey(pricing.model_id, pricing.region))
    /\ pricing' = [pricing EXCEPT
          !.pc = "calculate", !.source = "cache",
          !.rates = local_cache[CacheKey(pricing.model_id, pricing.region)][1]]
    /\ UNCHANGED <<budget, iam, grace_period_seconds, cacheVars, accessVars, batchVars, accrueVars,
                   enforceVars, restoreVars>>

\* get_model_pricing: the item of the pricing table, which is cached
GetModelPricing_Found ==
    /\ pricing.pc = "get_model_pricing"
    /\ ~CacheValid(CacheKey(pricing.model_id, pricing.region))
    /\ \E item \in TableRates :
          /\ pricing' = [pricing EXCEPT !.pc = "calculate", !.source = "table",
                                        !.rates = item]
          /\ local_cache' = [local_cache EXCEPT
                                ![CacheKey(pricing.model_id, pricing.region)] = <<item>>]
    /\ cache_timestamp' = <<Now>>
    /\ h_fetched_at' = [h_fetched_at EXCEPT
                           ![CacheKey(pricing.model_id, pricing.region)] = <<Now>>]
    /\ UNCHANGED <<budget, iam, grace_period_seconds, accessVars, batchVars, accrueVars,
                   enforceVars, restoreVars>>

\* get_model_pricing: no Item in the response
GetModelPricing_NotFound ==
    /\ pricing.pc = "get_model_pricing"
    /\ ~CacheValid(CacheKey(pricing.model_id, pricing.region))
    /\ pricing' = [pricing EXCEPT !.pc = "calculate", !.source = "fallback",
                                  !.rates = GetFallbackPricing(pricing.model_id)]
    /\ UNCHANGED <<budget, iam, grace_period_seconds, cacheVars, accessVars, batchVars, accrueVars,
                   enforceVars, restoreVars>>

\* get_model_pricing: get_item (or reading the item) raises
GetModelPricing_Raises ==
    /\ pricing.pc = "get_model_pricing"
    /\ ~CacheValid(CacheKey(pricing.model_id, pricing.region))
    /\ pricing' = [pricing EXCEPT !.pc = "calculate", !.source = "error",
                                  !.rates = GetFallbackPricing(pricing.model_id)]
    /\ UNCHANGED <<budget, iam, grace_period_seconds, cacheVars, accessVars, batchVars, accrueVars,
                   enforceVars, restoreVars>>

\* the arithmetic of calculate_cost_with_cache
CalculateCost ==
    /\ pricing.pc = "calculate"
    /\ pricing' = [pricing EXCEPT
          !.pc = "done",
          !.cost = CalculateCostWithCache(pricing.rates, pricing.input_tokens,
                      pricing.output_tokens, pricing.cache_creation_tokens,
                      pricing.cache_read_tokens)]
    /\ UNCHANGED <<budget, iam, grace_period_seconds, cacheVars, accessVars, batchVars, accrueVars,
                   enforceVars, restoreVars>>

----------------------------------------------------------------------------
(* usage_calculator: lambda_handler over the records of one event *)

\* what the data of a record is: a Bedrock log with usage, data that does not
\* decode or parse, a log whose fields raise in process_bedrock_log, or a log
\* without principal, model id or tokens
RecordKinds == {"ok", "undecodable", "unparseable", "incomplete"}

OffHandler == [pc |-> "off", pos |-> 1, processed_records |-> <<>>]

NewHandler == [OffHandler EXCEPT !.pc = "loop"]

\* a mutant of AfterFailedRecord: a record that fails ends the loop
AfterFailedRecord_abort(i) == MaxCalls + 1

\* the per-record except appends 'ProcessingFailed' and the loop goes on
AfterFailedRecord(i) == i + 1

\* usage_record of record_usage_tracking: the key is principal_id and the
\* time of the call, which grows from one record of the event to the next
UsageRecord(i) ==
    [timestamp |-> i, model_id |-> calls[i].model_id, cost_usd |-> calls[i].cost]

\* put_item on the usage-tracking table: an item with the same key is replaced
PutUsageRecord(table, record) ==
    {r \in table : r.timestamp # record.timestamp} \cup {record}

\* the record the loop is at
Current(i) ==
    /\ handler.pc = "loop"
    /\ handler.pos = i

\* base64, utf-8 or json decoding raises: the per-record except
LambdaHandler_RecordRaises(i) ==
    /\ Current(i)
    /\ calls[i].pc = "pending"
    /\ event_records[i] = "undecodable"
    /\ calls' = [calls EXCEPT ![i].pc = "dropped"]
    /\ handler' = [handler EXCEPT
          !.pos = AfterFailedRecord(i),
          !.processed_records = Append(@, "ProcessingFailed")]
    /\ UNCHANGED <<budget, setups, h_created, h_puts, h_initial, iam,
                   grace_period_seconds, cacheVars, accessVars, pricing, event_records, usage_tracking,
                   enforceVars, restoreVars>>

\* process_bedrock_log raises before the cost is calculated and returns False
ProcessBedrockLog_Raises(i) ==
    /\ Current(i)
    /\ calls[i].pc = "pending"
    /\ event_records[i] = "unparseable"
    /\ calls' = [calls EXCEPT ![i].pc = "dropped"]
    /\ handler' = [handler EXCEPT
          !.pos = AfterFailedRecord(i),
          !.processed_records = Append(@, "ProcessingFailed")]
    /\ UNCHANGED <<budget, setups, h_created, h_puts, h_initial, iam,
                   grace_period_seconds, cacheVars, accessVars, pricing, event_records, usage_tracking,
                   enforceVars, restoreVars>>

\* process_bedrock_log returns True early: no principal, model id or tokens
ProcessBedrockLog_Skips(i) ==
    /\ Current(i)
    /\ calls[i].pc = "pending"
    /\ event_records[i] = "incomplete"
    /\ calls' = [calls EXCEPT ![i].pc = "skipped"]
    /\ handler' = [handler EXCEPT
          !.pos = i + 1,
          !.processed_records = Append(@, "Ok")]
    /\ UNCHANGED <<budget, setups, h_created, h_puts, h_initial, iam,
                   grace_period_seconds, cacheVars, accessVars, pricing, event_records, usage_tracking,
                   enforceVars, restoreVars>>

\* process_bedrock_log extracts principal, model and tokens and has the cost
ProcessBedrockLog_Cost(i) ==
    /\ Current(i)
    /\ calls[i].pc = "pending"
    /\ event_records[i] = "ok"
    /\ calls' = [calls EXCEPT ![i].pc = "record_usage"]
    /\ UNCHANGED <<budget, setups, h_created, h_puts, h_initial, iam,
                   grace_period_seconds, cacheVars, accessVars, usageVars, enforceVars, restoreVars>>

\* record_usage_tracking, called before update_user_budget
RecordUsageTracking(i) ==
    /\ calls[i].pc = "record_usage"
    /\ usage_tracking' = PutUsageRecord(usage_tracking, UsageRecord(i))
    /\ calls' = [calls EXCEPT ![i].pc = "update_item"]
    /\ UNCHANGED <<budget, setups, h_created, h_puts, h_initial, iam,
                   grace_period_seconds, cacheVars, accessVars, pricing, event_records, handler,
                   enforceVars, restoreVars>>

\* put_item raises: "Don't raise - usage tracking failure shouldn't stop
\* budget updates"
RecordUsageTracking_Fails(i) ==
    /\ calls[i].pc = "record_usage"
    /\ calls' = [calls EXCEPT ![i].pc = "update_item"]
    /\ UNCHANGED <<budget, setups, h_created, h_puts, h_initial, iam,
                   grace_period_seconds, cacheVars, accessVars, usageVars, enforceVars, restoreVars>>

\* update_user_budget has returned or raised: the result of the record
LambdaHandler_Append(i) ==
    /\ Current(i)
    /\ calls[i].pc \in {"done", "failed"}
    /\ handler' = [handler EXCEPT
          !.pos = IF calls[i].pc = "done" THEN i + 1 ELSE AfterFailedRecord(i),
          !.processed_records =
              Append(@, IF calls[i].pc = "done" THEN "Ok" ELSE "ProcessingFailed")]
    /\ UNCHANGED <<budget, iam, grace_period_seconds, cacheVars, accessVars, pricing, event_records,
                   usage_tracking, accrueVars, enforceVars, restoreVars>>

\* return {'records': processed_records}
LambdaHandler_Return ==
    /\ handler.pc = "loop"
    /\ handler.pos > MaxCalls
    /\ handler' = [handler EXCEPT !.pc = "returned"]
    /\ UNCHANGED <<budget, iam, grace_period_seconds, cacheVars, accessVars, pricing, event_records,
                   usage_tracking, accrueVars, enforceVars, restoreVars>>

\* no event being handled
BatchOff ==
    /\ event_records = [i \in Calls |-> "ok"]
    /\ handler = OffHandler
    /\ usage_tracking = {}

\* no cost calculation in flight and no event being handled
UsageOff ==
    /\ pricing = NoPricing
    /\ BatchOff

----------------------------------------------------------------------------

(* iam_utilities and state_reconciliation *)

\* an iam_utilities invocation that has not been made
NoIamCall == [action |-> "none", statusCode |-> 0, is_valid |-> FALSE]

\* is_valid of validate_restrictions
ValidateRestrictions(policy_detached, has_tags) == policy_detached /\ has_tags

\* apply_restriction: the policy is detached (or was not attached) and the
\* user is tagged
IamUtilities_ApplyRestriction ==
    /\ iam' = [attached |-> FALSE, tagged |-> TRUE]
    /\ iam_call' = [NoIamCall EXCEPT !.action = "apply_restriction", !.statusCode = 200]
    /\ h_last_access' = "apply_restriction"
    /\ UNCHANGED <<budget, grace_period_seconds, cacheVars, published, usageVars, accrueVars,
                   enforceVars, restoreVars>>

\* apply_restriction: tag_user raises, "Don't fail the operation for tagging
\* errors"
IamUtilities_ApplyRestriction_TagFails ==
    /\ iam' = [iam EXCEPT !.attached = FALSE]
    /\ iam_call' = [NoIamCall EXCEPT !.action = "apply_restriction", !.statusCode = 200]
    /\ h_last_access' = "apply_restriction"
    /\ UNCHANGED <<budget, grace_period_seconds, cacheVars, published, usageVars, accrueVars,
                   enforceVars, restoreVars>>

\* apply_restriction: detach_user_policy raises; lambda_handler answers 500
IamUtilities_ApplyRestriction_Raises ==
    /\ iam_call' = [NoIamCall EXCEPT !.action = "apply_restriction", !.statusCode = 500]
    /\ UNCHANGED <<budget, iam, grace_period_seconds, cacheVars, h_last_access, published,
                   usageVars, accrueVars, enforceVars, restoreVars>>

\* restore_access: the policy is attached and the tags are removed
IamUtilities_RestoreAccess ==
    /\ iam' = [attached |-> TRUE, tagged |-> FALSE]
    /\ iam_call' = [NoIamCall EXCEPT !.action = "restore_access", !.statusCode = 200]
    /\ h_last_access' = "restore_access"
    /\ UNCHANGED <<budget, grace_period_seconds, cacheVars, published, usageVars, accrueVars,
                   enforceVars, restoreVars>>

\* restore_access: untag_user raises, which is only logged
IamUtilities_RestoreAccess_UntagFails ==
    /\ iam' = [iam EXCEPT !.attached = TRUE]
    /\ iam_call' = [NoIamCall EXCEPT !.action = "restore_access", !.statusCode = 200]
    /\ h_last_access' = "restore_access"
    /\ UNCHANGED <<budget, grace_period_seconds, cacheVars, published, usageVars, accrueVars,
                   enforceVars, restoreVars>>

\* restore_access: attach_user_policy raises; lambda_handler answers 500
IamUtilities_RestoreAccess_Raises ==
    /\ iam_call' = [NoIamCall EXCEPT !.action = "restore_access", !.statusCode = 500]
    /\ UNCHANGED <<budget, iam, grace_period_seconds, cacheVars, h_last_access, published,
                   usageVars, accrueVars, enforceVars, restoreVars>>

\* validate_restrictions: check_managed_policy_detached and
\* check_restriction_tags read the user
IamUtilities_ValidateRestrictions ==
    /\ iam_call' = [action |-> "validate_restrictions", statusCode |-> 200,
                    is_valid |-> ValidateRestrictions(~iam.attached, iam.tagged)]
    /\ UNCHANGED <<budget, iam, grace_period_seconds, cacheVars, h_last_access, published,
                   usageVars, accrueVars, enforceVars, restoreVars>>

\* validate_restrictions: a list call raises and the check answers False
IamUtilities_ValidateRestrictions_ListFails ==
    /\ \E policy_detached \in {FALSE, ~iam.attached},
          has_tags \in {FALSE, iam.tagged} :
          /\ policy_detached # ~iam.attached \/ has_tags # iam.tagged
          /\ iam_call' = [action |-> "validate_restrictions", statusCode |-> 200,
                          is_valid |-> ValidateRestrictions(policy_detached, has_tags)]
    /\ UNCHANGED <<budget, iam, grace_period_seconds, cacheVars, h_last_access, published,
                   usageVars, accrueVars, enforceVars, restoreVars>>

\* the ReconciledUsers metric of state_reconciliation, with its dimensions
ReconciledUsersMetric(reconciled_users) ==
    [MetricName |-> "ReconciledUsers", Value |-> reconciled_users,
     Dimensions |-> {"Environment"}]

\* state_reconciliation: the scan counts the items and the count is published
StateReconciliation ==
    /\ Len(published) < MaxReconciliations
    /\ LET reconciled_users == IF budget.exists THEN 1 ELSE 0
       IN published' = Append(published, ReconciledUsersMetric(reconciled_users))
    /\ UNCHANGED <<budget, iam, grace_period_seconds, cacheVars, iam_call, h_last_access,
                   usageVars, accrueVars, enforceVars, restoreVars>>

\* no iam_utilities invocation and no state_reconciliation run so far
AccessOff ==
    /\ iam_call = NoIamCall
    /\ h_last_access = "none"
    /\ published = <<>>

----------------------------------------------------------------------------

(* Accrual and provisioning *)

\* an item as accrual and provisioning leave it
AccruedItem(spent_usd, budget_limit_usd) ==
    [SetupBudgetItem EXCEPT
        !.budget_limit_usd = budget_limit_usd,
        !.spent_usd = spent_usd,
        !.threshold_state = ClassifyThreshold(spent_usd, budget_limit_usd),
        !.model_spend_breakdown = [ZeroBreakdown EXCEPT !["m1"] = spent_usd]]

NewCall(cost, model_id) ==
    [pc |-> "update_item", cost |-> cost, model_id |-> model_id,
     response |-> NoResponse]

OffCall == [NewCall(1, "m1") EXCEPT !.pc = "off"]

\* no usage event and no provisioning in flight
AccrueOff ==
    /\ calls = [c \in Calls |-> OffCall]
    /\ setups = [s \in Setups |-> "off"]
    /\ h_created = 0
    /\ h_puts = 0
    /\ h_initial = budget

\* no budget_monitor invocation and no suspension execution
EnforceOff ==
    /\ monitors = [m \in Monitors |-> OffMonitor]
    /\ susp = [e \in SuspExecs |-> FreeSusp]
    /\ h_grace_started = 0
    /\ h_grace_seconds = 0

\* no budget_refresh invocation and no restoration execution
RestoreOff ==
    /\ sweeps = [w \in Sweeps |-> OffSweep]
    /\ rests = [r \in RestExecs |-> FreeRest]

InitAccrue ==
    /\ UsageOff
    /\ AccessOff
    /\ CacheOff
    /\ budget \in {NoItem} \cup
          {AccruedItem(s, l) : s \in 0..DefaultBudgetUsd, l \in {0, DefaultBudgetUsd}}
    /\ calls \in [Calls -> {NewCall(k, m) : k \in 1..MaxCost, m \in Models}]
    /\ setups = [s \in Setups |-> "get_item"]
    /\ h_created = 0
    /\ h_puts = 0
    /\ h_initial = budget
    /\ iam = [attached |-> TRUE, tagged |-> FALSE]
    /\ grace_period_seconds = 1
    /\ EnforceOff
    /\ RestoreOff

NextAccrue ==
    \/ \E c \in Calls : UpdateUserBudget_UpdateItem(c)
    \/ \E c \in Calls : UpdateUserBudget_UpdateFails(c)
    \/ \E c \in Calls : CreateBasicBudgetRecord(c)
    \/ \E c \in Calls : CreateBasicBudgetRecord_ConditionFails(c)
    \/ \E c \in Calls : UpdateUserBudget_ThresholdState(c)
    \/ \E s \in Setups : UserSetup_GetItem(s)
    \/ \E s \in Setups : UserSetup_PutItem(s)

SpecAccrue == InitAccrue /\ [][NextAccrue]_vars

----------------------------------------------------------------------------
(* Enforcement: the budget monitor and the suspension state machine *)

InitEnforce ==
    /\ UsageOff
    /\ AccessOff
    /\ CacheOff
    /\ budget \in {AccruedItem(s, DefaultBudgetUsd) :
                      s \in (DefaultBudgetUsd - 1)..(DefaultBudgetUsd + 1)}
    /\ iam = [attached |-> TRUE, tagged |-> FALSE]
    /\ grace_period_seconds \in 1..MaxGrace
    /\ AccrueOff
    /\ monitors = [m \in Monitors |-> IdleMonitor]
    /\ susp = [e \in SuspExecs |-> FreeSusp]
    /\ h_grace_started = 0
    /\ h_grace_seconds = 0
    /\ RestoreOff

NextEnforce ==
    \/ Tick
    \/ \E m \in Monitors : BudgetMonitor_Scan(m)
    \/ \E m \in Monitors : BudgetMonitor_NotExceeded(m)
    \/ \E m \in Monitors : BudgetMonitor_StartGracePeriod(m)
    \/ \E m \in Monitors : BudgetMonitor_StartGracePeriod_Fails(m)
    \/ \E m \in Monitors : BudgetMonitor_StillInGrace(m)
    \/ \E m \in Monitors : BudgetMonitor_GraceExpired(m)
    \/ \E e \in SuspExecs : Susp_SendGraceNotification(e)
    \/ \E e \in SuspExecs : Susp_GracePeriodWait(e)
    \/ \E e \in SuspExecs : Susp_SendFinalWarning(e)
    \/ \E e \in SuspExecs : Susp_Notification_TaskFails(e)
    \/ \E e \in SuspExecs : Susp_ApplyFullSuspension(e)
    \/ \E e \in SuspExecs : Susp_ApplyFullSuspension_Error(e)
    \/ \E e \in SuspExecs : Susp_ApplyFullSuspension_TaskFails(e)
    \/ \E e \in SuspExecs : Susp_UpdateUserStatus(e)

SpecEnforce == InitEnforce /\ [][NextEnforce]_vars

\* one budget_monitor invocation at a time, as the schedule runs it, and two
\* executions of the suspension state machine
InitSuspension ==
    /\ UsageOff
    /\ AccessOff
    /\ CacheOff
    /\ budget \in {AccruedItem(s, DefaultBudgetUsd) :
                      s \in (DefaultBudgetUsd - 1)..(DefaultBudgetUsd + 1)}
    /\ iam = [attached |-> TRUE, tagged |-> FALSE]
    /\ grace_period_seconds \in 1..MaxGrace
    /\ AccrueOff
    /\ monitors = [m \in Monitors |-> IF m = 1 THEN IdleMonitor ELSE OffMonitor]
    /\ susp = [e \in SuspExecs |-> IF e \in {1, 2} THEN FreeSusp ELSE OffSusp]
    /\ h_grace_started = 0
    /\ h_grace_seconds = 0
    /\ RestoreOff

SpecSuspension == InitSuspension /\ [][NextEnforce]_vars

\* the suspension machinery while the configured grace period is changed
NextGraceConfig ==
    \/ NextEnforce
    \/ ChangeGracePeriodSeconds

SpecGraceConfig == InitSuspension /\ [][NextGraceConfig]_vars

\* an item as a suspension execution leaves it: over its limit, suspended,
\* the grace deadline of the period still on it
SuspendedItem(spent_usd, budget_limit_usd, refresh_date) ==
    [AccruedItem(spent_usd, budget_limit_usd) EXCEPT
        !.status = "suspended",
        !.grace_deadline_epoch = <<-PastHorizon>>,
        !.suspension_timestamp = <<-PastHorizon>>,
        !.budget_period_start = -PastHorizon,
        !.budget_refresh_date = refresh_date]

\* an item of any status the monitor distinguishes, with or without a limit
MonitoredItem(spent_usd, budget_limit_usd, status) ==
    IF status = "suspended"
    THEN SuspendedItem(spent_usd, budget_limit_usd, Now + RefreshPeriodDays)
    ELSE [AccruedItem(spent_usd, budget_limit_usd) EXCEPT !.status = status]

\* one budget_monitor invocation at a time over an item that is active,
\* suspended or restricted, below, at or over its limit, or without a limit
InitMonitor ==
    /\ UsageOff
    /\ AccessOff
    /\ CacheOff
    /\ budget \in {MonitoredItem(s, l, st) :
                      s \in (DefaultBudgetUsd - 1)..(DefaultBudgetUsd + 1),
                      l \in {0, DefaultBudgetUsd},
                      st \in {"active", "suspended", "restricted"}}
    /\ iam = [attached |-> budget.status # "suspended",
              tagged |-> budget.status = "suspended"]
    /\ grace_period_seconds \in 1..MaxGrace
    /\ AccrueOff
    /\ monitors = [m \in Monitors |-> IF m = 1 THEN IdleMonitor ELSE OffMonitor]
    /\ susp = [e \in SuspExecs |-> IF e \in {1, 2} THEN FreeSusp ELSE OffSusp]
    /\ h_grace_started = 0
    /\ h_grace_seconds = 0
    /\ RestoreOff

SpecMonitor == InitMonitor /\ [][NextEnforce]_vars

----------------------------------------------------------------------------
(* Accrual on an account under enforcement *)

\* an item as start_grace_period leaves it
GracePeriodItem(spent_usd, budget_limit_usd, deadline) ==
    [AccruedItem(spent_usd, budget_limit_usd) EXCEPT
        !.status = "grace_period",
        !.grace_deadline_epoch = <<deadline>>]

\* usage events for a user that is active near the limit, in the grace
\* period or suspended, or that has no item yet
InitAccrueEnforced ==
    /\ UsageOff
    /\ AccessOff
    /\ CacheOff
    /\ budget \in {NoItem}
          \cup {AccruedItem(s, DefaultBudgetUsd) :
                   s \in (DefaultBudgetUsd - MaxCost)..DefaultBudgetUsd}
          \cup {GracePeriodItem(s, DefaultBudgetUsd, Now + 1) :
                   s \in DefaultBudgetUsd..(DefaultBudgetUsd + 1)}
          \cup {SuspendedItem(s, DefaultBudgetUsd, Now + RefreshPeriodDays) :
                   s \in DefaultBudgetUsd..(DefaultBudgetUsd + 1)}
    /\ calls \in [Calls -> {NewCall(k, m) : k \in 1..MaxCost, m \in Models}]
    /\ setups = [s \in Setups |-> "off"]
    /\ h_created = 0
    /\ h_puts = 0
    /\ h_initial = budget
    /\ iam = [attached |-> budget.status # "suspended",
              tagged |-> budget.status = "suspended"]
    /\ grace_period_seconds = 1
    /\ EnforceOff
    /\ RestoreOff

NextAccrueEnforced ==
    \/ \E c \in Calls : UpdateUserBudget_UpdateItem(c)
    \/ \E c \in Calls : UpdateUserBudget_UpdateFails(c)
    \/ \E c \in Calls : CreateBasicBudgetRecord(c)
    \/ \E c \in Calls : CreateBasicBudgetRecord_ConditionFails(c)
    \/ \E c \in Calls : UpdateUserBudget_ThresholdState(c)

SpecAccrueEnforced == InitAccrueEnforced /\ [][NextAccrueEnforced]_vars

----------------------------------------------------------------------------

(* Restoration: the budget refresh sweep and the restoration state machine *)

\* one budget_refresh invocation at a time, as the daily schedule runs it,
\* and two executions of the restoration state machine
InitRestore ==
    /\ UsageOff
    /\ AccessOff
    /\ CacheOff
    /\ budget \in {SuspendedItem(s, DefaultBudgetUsd, t) :
                      s \in DefaultBudgetUsd..(DefaultBudgetUsd + 1), t \in -1..1}
    /\ iam = [attached |-> FALSE, tagged |-> TRUE]
    /\ grace_period_seconds = 1
    /\ AccrueOff
    /\ EnforceOff
    /\ sweeps = [w \in Sweeps |-> IF w = 1 THEN IdleSweep ELSE OffSweep]
    /\ rests = [r \in RestExecs |-> IF r \in {1, 2} THEN FreeRest ELSE OffRest]

\* the steps of the sweep and of the state machine when no call fails
NextRestoreNoFault ==
    \/ Tick
    \/ \E w \in Sweeps : BudgetRefresh_Scan(w)
    \/ \E w \in Sweeps : BudgetRefresh_NothingToDo(w)
    \/ \E w \in Sweeps : BudgetRefresh_TriggerRestoration(w)
    \/ \E w \in Sweeps : BudgetRefresh_RefreshActive(w)
    \/ \E r \in RestExecs : Rest_ValidateAutomaticRestoration(r)
    \/ \E r \in RestExecs : Rest_RestoreAccess(r)
    \/ \E r \in RestExecs : Rest_ValidateAccessRestoration(r)
    \/ \E r \in RestExecs : Rest_ResetBudgetStatus(r)
    \/ \E r \in RestExecs : Rest_LogRestorationAudit(r)
    \/ \E r \in RestExecs : Rest_SendRestorationNotification(r)

NextRestore ==
    \/ NextRestoreNoFault
    \/ \E r \in RestExecs : Rest_ValidateAutomaticRestoration_Error(r)
    \/ \E r \in RestExecs : Rest_RestoreAccess_Error(r)
    \/ \E r \in RestExecs : Rest_RestoreAccess_TaskFails(r)
    \/ \E r \in RestExecs : Rest_ResetBudgetStatus_TaskFails(r)

SpecRestore == InitRestore /\ [][NextRestore]_vars

\* the schedule runs the sweep again and again, Step Functions runs every
\* state that is ready, and time passes
FairRestore ==
    /\ WF_vars(Tick)
    /\ \A w \in Sweeps :
          /\ WF_vars(BudgetRefresh_Scan(w))
          /\ WF_vars(BudgetRefresh_NothingToDo(w))
          /\ WF_vars(BudgetRefresh_TriggerRestoration(w))
          /\ WF_vars(BudgetRefresh_RefreshActive(w))
    /\ \A r \in RestExecs :
          /\ WF_vars(Rest_ValidateAutomaticRestoration(r))
          /\ WF_vars(Rest_RestoreAccess(r))
          /\ WF_vars(Rest_ValidateAccessRestoration(r))
          /\ WF_vars(Rest_ResetBudgetStatus(r))
          /\ WF_vars(Rest_LogRestorationAudit(r))
          /\ WF_vars(Rest_SendRestorationNotification(r))

SpecRestoreFair == InitRestore /\ [][NextRestoreNoFault]_vars /\ FairRestore

----------------------------------------------------------------------------
(* The life of an account: exhaustion, grace period, suspension, refresh,
   restoration and new usage, when no call fails *)

InitLife ==
    /\ UsageOff
    /\ AccessOff
    /\ CacheOff
    /\ budget = AccruedItem(1, 1)
    /\ iam = [attached |-> TRUE, tagged |-> FALSE]
    /\ grace_period_seconds = 1
    /\ calls \in [Calls -> {NewCall(1, "m1"), OffCall}]
    /\ calls[1].pc # "off"
    /\ \A c \in Calls \ {1} : calls[c].pc = "off"
    /\ setups = [s \in Setups |-> "off"]
    /\ h_created = 0
    /\ h_puts = 0
    /\ h_initial = budget
    /\ monitors = [m \in Monitors |-> IF m = 1 THEN IdleMonitor ELSE OffMonitor]
    /\ susp = [e \in SuspExecs |-> IF e = 1 THEN FreeSusp ELSE OffSusp]
    /\ h_grace_started = 0
    /\ h_grace_seconds = 0
    /\ sweeps = [w \in Sweeps |-> IF w = 1 THEN IdleSweep ELSE OffSweep]
    /\ rests = [r \in RestExecs |-> IF r = 1 THEN FreeRest ELSE OffRest]

NextLife ==
    \/ NextRestoreNoFault
    \/ \E c \in Calls : UpdateUserBudget_UpdateItem(c)
    \/ \E c \in Calls : UpdateUserBudget_ThresholdState(c)
    \/ \E m \in Monitors : BudgetMonitor_Scan(m)
    \/ \E m \in Monitors : BudgetMonitor_NotExceeded(m)
    \/ \E m \in Monitors : BudgetMonitor_StartGracePeriod(m)
    \/ \E m \in Monitors : BudgetMonitor_StillInGrace(m)
    \/ \E m \in Monitors : BudgetMonitor_GraceExpired(m)
    \/ \E e \in SuspExecs : Susp_SendGraceNotification(e)
    \/ \E e \in SuspExecs : Susp_GracePeriodWait(e)
    \/ \E e \in SuspExecs : Susp_SendFinalWarning(e)
    \/ \E e \in SuspExecs : Susp_ApplyFullSuspension(e)
    \/ \E e \in SuspExecs : Susp_UpdateUserStatus(e)

SpecLife == InitLife /\ [][NextLife]_vars

----------------------------------------------------------------------------
(* The refresh sweep over items of every status *)

\* one budget_refresh invocation at a time and two executions of the
\* restoration state machine, for a user that is active, in the grace period
\* or suspended, with the refresh date behind, now or ahead
InitSweep ==
    /\ UsageOff
    /\ AccessOff
    /\ CacheOff
    /\ \E s \in 1..DefaultBudgetUsd, t \in -1..1 :
          \/ /\ budget = [AccruedItem(s, DefaultBudgetUsd) EXCEPT !.budget_refresh_date = t]
             /\ iam = [attached |-> TRUE, tagged |-> FALSE]
          \/ /\ \E d \in 0..1 :
                   budget = [GracePeriodItem(DefaultBudgetUsd, DefaultBudgetUsd, d)
                                EXCEPT !.budget_refresh_date = t]
             /\ iam = [attached |-> TRUE, tagged |-> FALSE]
          \/ /\ budget = SuspendedItem(DefaultBudgetUsd, DefaultBudgetUsd, t)
             /\ iam = [attached |-> FALSE, tagged |-> TRUE]
    /\ grace_period_seconds = 1
    /\ AccrueOff
    /\ EnforceOff
    /\ sweeps = [w \in Sweeps |-> IF w = 1 THEN IdleSweep ELSE OffSweep]
    /\ rests = [r \in RestExecs |-> IF r \in {1, 2} THEN FreeRest ELSE OffRest]

SpecSweep == InitSweep /\ [][NextRestoreNoFault]_vars

----------------------------------------------------------------------------
(* Restoration while the restored user is using models again *)

\* the sweep, two executions of the restoration state machine, and one
\* usage event that update_user_budget accrues
InitRestoreUsage ==
    /\ UsageOff
    /\ AccessOff
    /\ CacheOff
    /\ budget \in {SuspendedItem(DefaultBudgetUsd, DefaultBudgetUsd, t) : t \in -1..0}
    /\ iam = [attached |-> FALSE, tagged |-> TRUE]
    /\ grace_period_seconds = 1
    /\ calls = [c \in Calls |-> IF c = 1 THEN NewCall(1, "m1") ELSE OffCall]
    /\ setups = [s \in Setups |-> "off"]
    /\ h_created = 0
    /\ h_puts = 0
    /\ h_initial = budget
    /\ EnforceOff
    /\ sweeps = [w \in Sweeps |-> IF w = 1 THEN IdleSweep ELSE OffSweep]
    /\ rests = [r \in RestExecs |-> IF r \in {1, 2} THEN FreeRest ELSE OffRest]

NextRestoreUsage ==
    \/ NextRestoreNoFault
    \/ \E c \in Calls : UpdateUserBudget_UpdateItem(c)
    \/ \E c \in Calls : UpdateUserBudget_ThresholdState(c)

SpecRestoreUsage == InitRestoreUsage /\ [][NextRestoreUsage]_vars

----------------------------------------------------------------------------

(* Cost calculation *)

TokenCounts == {0, 1, MaxTokens}

InitPricing ==
    /\ pricing \in
          {[NoPricing EXCEPT !.pc = "get_model_pricing", !.model_id = m,
                             !.region = g, !.input_tokens = i,
                             !.output_tokens = o,
                             !.cache_creation_tokens = cw,
                             !.cache_read_tokens = cr] :
              m \in PricingModelIds, g \in Regions, i \in TokenCounts,
              o \in TokenCounts, cw \in TokenCounts, cr \in TokenCounts}
    /\ BatchOff
    /\ AccessOff
    /\ CacheOff
    /\ budget = NoItem
    /\ iam = [attached |-> TRUE, tagged |-> FALSE]
    /\ grace_period_seconds = 1
    /\ AccrueOff
    /\ EnforceOff
    /\ RestoreOff

NextPricing ==
    \/ GetModelPricing_Found
    \/ GetModelPricing_NotFound
    \/ GetModelPricing_Raises
    \/ CalculateCost

SpecPricing == InitPricing /\ [][NextPricing]_vars

----------------------------------------------------------------------------
(* The pricing cache of one execution environment over several lookups *)

CacheTick == 150       \* seconds that pass in one step of the clock
MaxCacheAge == 450     \* cache times older than this are kept as this old

\* the (model_id, region) pairs the usage events name
CacheLookups ==
    { <<(<<"claude-3-opus">>), "us-east-1">>, <<(<<"claude-3-opus">>), "eu-west-1">>,
      <<(<<"amazon.titan">>), "us-east-1">> }

ShiftCacheTime(t) ==
    IF t = <<>> THEN <<>>
    ELSE IF t[1] - CacheTick < -MaxCacheAge THEN <<-MaxCacheAge>>
    ELSE <<t[1] - CacheTick>>

\* time passes between two invocations of the function
PricingClock ==
    /\ pricing.pc \in {"off", "done"}
    /\ cache_timestamp' = ShiftCacheTime(cache_timestamp)
    /\ h_fetched_at' = [k \in CacheKeys |-> ShiftCacheTime(h_fetched_at[k])]
    /\ UNCHANGED <<local_cache, pricing, budget, iam, grace_period_seconds, accessVars,
                   batchVars, accrueVars, enforceVars, restoreVars>>

\* the next usage event: calculate_cost_with_cache calls get_model_pricing
CalculateCostWithCache_Call ==
    /\ pricing.pc \in {"off", "done"}
    /\ \E l \in CacheLookups :
          pricing' = [NoPricing EXCEPT !.pc = "get_model_pricing",
                                       !.model_id = l[1], !.region = l[2],
                                       !.input_tokens = 1, !.output_tokens = 1]
    /\ UNCHANGED <<budget, iam, grace_period_seconds, cacheVars, accessVars, batchVars,
                   accrueVars, enforceVars, restoreVars>>

InitPricingCache ==
    /\ UsageOff
    /\ AccessOff
    /\ CacheOff
    /\ budget = NoItem
    /\ iam = [attached |-> TRUE, tagged |-> FALSE]
    /\ grace_period_seconds = 1
    /\ AccrueOff
    /\ EnforceOff
    /\ RestoreOff

NextPricingCache ==
    \/ CalculateCostWithCache_Call
    \/ GetModelPricing_Cached
    \/ GetModelPricing_Found
    \/ GetModelPricing_NotFound
    \/ GetModelPricing_Raises
    \/ CalculateCost
    \/ PricingClock

SpecPricingCache == InitPricingCache /\ [][NextPricingCache]_vars

----------------------------------------------------------------------------
(* One event handled by usage_calculator *)

\* the records of one event for one principal, well-formed or not, on a
\* ledger with or without an item for the principal
InitUsage ==
    /\ pricing = NoPricing
    /\ event_records \in [Calls -> RecordKinds]
    /\ handler = NewHandler
    /\ usage_tracking = {}
    /\ AccessOff
    /\ CacheOff
    /\ budget \in {NoItem} \cup
          {AccruedItem(s, l) : s \in 0..1, l \in {0, DefaultBudgetUsd}}
    /\ calls \in [Calls -> {[NewCall(k, m) EXCEPT !.pc = "pending"] :
                               k \in 1..MaxCost, m \in Models}]
    /\ setups = [s \in Setups |-> "off"]
    /\ h_created = 0
    /\ h_puts = 0
    /\ h_initial = budget
    /\ iam = [attached |-> TRUE, tagged |-> FALSE]
    /\ grace_period_seconds = 1
    /\ EnforceOff
    /\ RestoreOff

NextUsage ==
    \/ \E i \in Calls : LambdaHandler_RecordRaises(i)
    \/ \E i \in Calls : ProcessBedrockLog_Raises(i)
    \/ \E i \in Calls : ProcessBedrockLog_Skips(i)
    \/ \E i \in Calls : ProcessBedrockLog_Cost(i)
    \/ \E i \in Calls : RecordUsageTracking(i)
    \/ \E i \in Calls : RecordUsageTracking_Fails(i)
    \/ \E c \in Calls : UpdateUserBudget_UpdateItem(c)
    \/ \E c \in Calls : UpdateUserBudget_UpdateFails(c)
    \/ \E c \in Calls : CreateBasicBudgetRecord(c)
    \/ \E c \in Calls : UpdateUserBudget_ThresholdState(c)
    \/ \E c \in Calls : UpdateUserBudget_ThresholdState_Fails(c)
    \/ \E i \in Calls : LambdaHandler_Append(i)
    \/ LambdaHandler_Return

SpecUsage == InitUsage /\ [][NextUsage]_vars

----------------------------------------------------------------------------
(* iam_utilities invoked on a principal, and state_reconciliation runs *)

\* a principal whose access matches its item; the invocations of
\* iam_utilities then change the access without the item
InitAccess ==
    /\ UsageOff
    /\ AccessOff
    /\ CacheOff
    /\ budget \in {NoItem} \cup
          {MonitoredItem(s, DefaultBudgetUsd, st) :
              s \in (DefaultBudgetUsd - 1)..(DefaultBudgetUsd + 1),
              st \in {"active", "suspended"}}
    /\ iam = [attached |-> budget.status # "suspended",
              tagged |-> budget.status = "suspended"]
    /\ grace_period_seconds = 1
    /\ AccrueOff
    /\ EnforceOff
    /\ RestoreOff

NextAccess ==
    \/ IamUtilities_ApplyRestriction
    \/ IamUtilities_ApplyRestriction_TagFails
    \/ IamUtilities_ApplyRestriction_Raises
    \/ IamUtilities_RestoreAccess
    \/ IamUtilities_RestoreAccess_UntagFails
    \/ IamUtilities_RestoreAccess_Raises
    \/ IamUtilities_ValidateRestrictions
    \/ IamUtilities_ValidateRestrictions_ListFails
    \/ StateReconciliation

SpecAccess == InitAccess /\ [][NextAccess]_vars

----------------------------------------------------------------------------
(* Claims about accrual *)

RECURSIVE SumCosts(_)
SumCosts(S) ==
    IF S = {} THEN 0
    ELSE LET c == CHOOSE x \in S : TRUE IN calls[c].cost + SumCosts(S \ {c})

AccrualsFinished == \A c \in Calls : calls[c].pc \in {"done", "failed"}

\* C1: for an account that exists before the calls, once every concurrent
\* update_user_budget call has returned (no period reset in between),
\* spent_usd is the initial spent_usd plus the sum of the costs of all the
\* calls: no update is lost, whatever the interleaving.
C1_NoLostUpdate ==
    (h_initial.exists /\ AccrualsFinished)
        => budget.spent_usd = h_initial.spent_usd + SumCosts(Calls)

C1_Witness ==
    /\ h_initial.exists
    /\ AccrualsFinished
    /\ \A c \in Calls : calls[c].pc = "done"
    /\ budget.spent_usd = h_initial.spent_usd + SumCosts(Calls)
    /\ budget.spent_usd > h_initial.spent_usd + 1

\* C2: when the principal has no account and several usage events are
\* processed concurrently, exactly one record is created and the final
\* spent_usd is the sum of the costs of all the events (the losers of the
\* conditional create are retried as increments).
C2_FirstUseSum ==
    (~h_initial.exists /\ h_puts = 0 /\ AccrualsFinished)
        => /\ budget.exists
           /\ h_created = 1
           /\ budget.spent_usd = SumCosts(Calls)

----------------------------------------------------------------------------
(* Claims about enforcement *)

Range(seq) == {seq[i] : i \in 1..Len(seq)}

IsPrefix(s, t) == Len(s) <= Len(t) /\ \A i \in 1..Len(s) : s[i] = t[i]

SuspInProgress == {e \in SuspExecs : susp[e].pc \notin {"free", "off"} \cup SuspTerminal}

\* the revocation of execution e failed: the IAM call raised inside the
\* Lambda (statusCode 500), or the task itself failed
RevokeFailed(e) ==
    susp[e].suspension_result = 500 \/ susp[e].pc = "SuspensionFailed"

\* C3: in every reachable state, a principal whose ledger status is
\* suspended has the managed policy detached; the suspension state machine
\* never records the status suspended while the policy is still attached.
C3_SuspendedImpliesRevoked ==
    budget.status = "suspended" => ~iam.attached

\* C4: for an account at or over 100% of its limit with no grace deadline,
\* concurrent budget_monitor invocations start one grace period and no
\* more: grace_deadline_epoch is written once.
C4_OneGracePeriod ==
    h_grace_started <= 1

\* C5: at any time at most one execution of the suspension state machine is
\* in progress for the principal, whatever the number of budget_monitor
\* invocations that run.
C5_OneExecution ==
    Cardinality(SuspInProgress) <= 1

\* C6: when the revocation of an execution failed, UpdateUserStatus is not
\* executed by that execution and the execution does not end anywhere but
\* in SuspensionFailed.
C6_FailedRevokeNotMarked ==
    \A e \in SuspExecs :
        RevokeFailed(e) =>
            /\ "UpdateUserStatus" \notin Range(susp[e].trace)
            /\ susp[e].pc \in SuspTerminal => susp[e].pc = "SuspensionFailed"

SuspensionOrder ==
    <<"SendGraceNotification", "GracePeriodWait", "SendFinalWarning",
      "ApplyFullSuspension", "UpdateUserStatus">>

\* C7: every execution of the suspension state machine runs its states in
\* the order SendGraceNotification, GracePeriodWait, SendFinalWarning,
\* ApplyFullSuspension, UpdateUserStatus, SuspensionSuccess: the states it
\* has left are a prefix of that order and it is in the next one (or in a
\* failure state), and once it is past GracePeriodWait the grace period
\* counted from its start has elapsed.
C7_FixedOrder ==
    \A e \in SuspExecs :
        /\ IsPrefix(susp[e].trace, SuspensionOrder)
        /\ e \in SuspInProgress =>
              susp[e].pc = SuspensionOrder[Len(susp[e].trace) + 1]
        /\ susp[e].pc = "SuspensionSuccess" => susp[e].trace = SuspensionOrder
        /\ "GracePeriodWait" \in Range(susp[e].trace) => Now >= susp[e].wait_until

C7_Witness ==
    \E e \in SuspExecs :
        /\ susp[e].pc = "SuspensionSuccess"
        /\ susp[e].trace = SuspensionOrder
        /\ susp[e].suspension_result = 200
        /\ budget.status = "suspended"
        /\ ~iam.attached

\* budget_monitor handles an active account that is at or over its limit
MonitorHandlesExhausted(m) ==
    /\ monitors[m].pc = "scanned"
    /\ monitors[m].item.status = "active"
    /\ BudgetExceeded(monitors[m].item)
    /\ monitors'[m].pc = "idle"

\* C8: when no call fails, the budget monitor answers an active account
\* with a positive limit that is at or over its limit by starting a grace
\* period: the status becomes grace_period and grace_deadline_epoch is now
\* plus grace_period_seconds; the suspension follows that deadline.
C8_GracePeriodStarted ==
    [][\A m \in Monitors :
          MonitorHandlesExhausted(m) =>
              /\ budget'.status = "grace_period"
              /\ budget'.grace_deadline_epoch = <<Now + grace_period_seconds>>]_vars

----------------------------------------------------------------------------
(* Claims about restoration *)

C9_PastDue ==
    /\ budget.exists
    /\ budget.status = "suspended"
    /\ Now >= budget.budget_refresh_date

\* the item and the IAM user as a restoration execution leaves them: the
\* refresh date is the time of its validation plus refresh_period_days
C9_Restored ==
    \E r \in RestExecs :
        /\ rests[r].pc \in {"LogRestorationAudit", "SendRestorationNotification",
                             "RestorationSuccess"}
        /\ iam.attached
        /\ budget.spent_usd = 0
        /\ budget.status = "active"
        /\ budget.budget_refresh_date =
              rests[r].h_validated_at + budget.refresh_period_days

\* C9: when no call fails and the sweep and the states of the restoration
\* state machine are run fairly, a suspended principal whose
\* budget_refresh_date is reached eventually has the managed policy
\* attached, spent_usd = 0, status active and a budget_refresh_date that is
\* refresh_period_days after the restoration.
C9_EventuallyRestored ==
    C9_PastDue ~> C9_Restored

C9_Witness ==
    /\ C9_Restored
    /\ h_initial.status = "suspended"
    /\ \E r \in RestExecs : rests[r].pc = "RestorationSuccess"
    /\ budget.budget_refresh_date > Now

RestValidated ==
    {r \in RestExecs : rests[r].pc \notin {"free", "off", "ValidateAutomaticRestoration"}}

\* the states of an execution that follow a valid request
RestGrantPath ==
    {"RestoreAccess", "ValidateAccessRestoration", "ResetBudgetStatus",
     "LogRestorationAudit", "SendRestorationNotification", "RestorationSuccess",
     "RestorationFailed"}

\* what the validation read makes the principal eligible
Eligible(seen) == seen.exists /\ seen.status = "suspended" /\ seen.due

C10_OnlyEligible ==
    \A r \in RestValidated :
        /\ rests[r].pc \in RestGrantPath => Eligible(rests[r].h_seen)
        /\ ~Eligible(rests[r].h_seen) => rests[r].pc = "ValidationFailed"

C10_ValidationFailedChangesNothing ==
    \A r \in RestExecs :
        (rests[r].pc = "ValidateAutomaticRestoration" /\ rests'[r].pc = "ValidationFailed")
            => (budget' = budget /\ iam' = iam)

\* C10: a restoration execution attaches the policy and resets the item only
\* when its validation read an item that exists, has status suspended and
\* has a budget_refresh_date that is reached; for any other item it ends in
\* ValidationFailed, and the step that takes it there changes neither the
\* item nor the IAM user.
C10_EligibilityGuardsRestoration ==
    []C10_OnlyEligible /\ [][C10_ValidationFailedChangesNothing]_vars

C10_Witness ==
    \E r1, r2 \in RestExecs :
        /\ rests[r1].pc = "RestorationSuccess"
        /\ Eligible(rests[r1].h_seen)
        /\ rests[r2].pc = "ValidationFailed"
        /\ rests[r2].h_seen.exists
        /\ rests[r2].h_seen.status = "active"
        /\ iam.attached
        /\ budget.status = "active"

----------------------------------------------------------------------------
(* Claims about period resets *)

\* execution r of the restoration state machine takes its ResetBudgetStatus step
ResetStep(r) ==
    /\ rests[r].pc = "ResetBudgetStatus"
    /\ rests'[r].pc = RestorationDefinition("ResetBudgetStatus")

----------------------------------------------------------------------------
(* Claims about repeated suspension and restoration *)

\* execution e of the suspension state machine takes its ApplyFullSuspension
\* or its UpdateUserStatus step, and the task succeeds
RevokeOrMarkStep(e) ==
    /\ susp[e].pc \in {"ApplyFullSuspension", "UpdateUserStatus"}
    /\ susp'[e].pc = SuspensionDefinition(susp[e].pc)

ValidatesActive(r) ==
    /\ rests[r].pc = "ValidateAutomaticRestoration"
    /\ rests'[r].pc # "ValidateAutomaticRestoration"
    /\ budget.exists
    /\ budget.status = "active"

\* an execution that found the user active ended in ValidationFailed without
\* invoking iam_utilities
ActiveNotRestored ==
    \A r \in RestExecs :
        (/\ rests[r].pc \notin {"free", "off", "ValidateAutomaticRestoration"}
         /\ rests[r].h_seen.exists
         /\ rests[r].h_seen.status = "active")
            => /\ rests[r].pc = "ValidationFailed"
               /\ rests[r].restore_result = FreeRest.restore_result

\* C13: restoring a user that is already active is a no-op: the execution
\* ends in ValidationFailed, the budget item (spent_usd, status,
\* budget_period_start, budget_refresh_date, refresh_count and the rest) is
\* left as it was, and iam_utilities is not invoked.
C13_RestoreActiveNoOp ==
    /\ []ActiveNotRestored
    /\ [][\A r \in RestExecs :
             ValidatesActive(r)
                 => /\ rests'[r].pc = "ValidationFailed"
                    /\ budget' = budget
                    /\ iam' = iam]_vars

C13_Witness ==
    \E r \in RestExecs :
        /\ rests[r].pc = "ValidationFailed"
        /\ rests[r].h_seen.exists
        /\ rests[r].h_seen.status = "active"
        /\ rests[r].restore_result = FreeRest.restore_result
        /\ budget.status = "active"
        /\ budget.spent_usd = 0

\* invocation w of budget_refresh resets the period of an active user in place
RefreshActiveStep(w) ==
    /\ sweeps[w].pc = "scanned"
    /\ RefreshDue(w)
    /\ sweeps[w].item.status = "active"
    /\ sweeps'[w].pc = "idle"

\* a period reset: the in-place reset of budget_refresh or ResetBudgetStatus
PeriodResetStep ==
    \/ \E w \in Sweeps : RefreshActiveStep(w)
    \/ \E r \in RestExecs : ResetStep(r)

\* C14: every period reset, the in-place reset of budget_refresh and the
\* ResetBudgetStatus of the restoration state machine alike, leaves
\* spent_usd = 0 and budget_refresh_date = budget_period_start +
\* refresh_period_days.
C14_ResetPostcondition ==
    [][PeriodResetStep
          => /\ budget'.spent_usd = 0
             /\ budget'.budget_refresh_date =
                   budget'.budget_period_start + budget'.refresh_period_days]_vars

\* C15: every period reset, the in-place reset of budget_refresh and the
\* ResetBudgetStatus of the restoration state machine alike, increments
\* refresh_count by exactly one.
C15_ResetCounts ==
    [][PeriodResetStep => budget'.refresh_count = budget.refresh_count + 1]_vars

\* execution e of the suspension state machine takes its UpdateUserStatus step
MarkSuspendedStep(e) ==
    /\ susp[e].pc = "UpdateUserStatus"
    /\ susp'[e].pc = SuspensionDefinition("UpdateUserStatus")

\* C16: grace_deadline_epoch is cleared when the user is suspended
\* (UpdateUserStatus) and when the user is restored (ResetBudgetStatus).
C16_GraceDeadlineCleared ==
    [][((\E e \in SuspExecs : MarkSuspendedStep(e)) \/ (\E r \in RestExecs : ResetStep(r)))
          => budget'.grace_deadline_epoch = <<>>]_vars

----------------------------------------------------------------------------
(* Claims about the grace period and the monitor *)

\* a user in the grace period has a grace deadline
GracePeriodHasDeadline ==
    budget.status = "grace_period" => budget.grace_deadline_epoch # <<>>

\* start_grace_period has written the item
GraceStartStep == h_grace_started' = h_grace_started + 1

\* C17: a user whose status is grace_period has grace_deadline_epoch set, and
\* the deadline that start_grace_period writes together with the status is
\* strictly later than the time of the write.
C17_DeadlineInFuture ==
    /\ []GracePeriodHasDeadline
    /\ [][GraceStartStep
             => /\ budget'.status = "grace_period"
                /\ budget'.grace_deadline_epoch # <<>>
                /\ budget'.grace_deadline_epoch[1] > Now]_vars

C17_Witness ==
    /\ budget.status = "grace_period"
    /\ h_grace_started = 1
    /\ budget.grace_deadline_epoch # <<>>
    /\ budget.grace_deadline_epoch[1] > Now

\* invocation m of budget_monitor handles the item it scanned
MonitorActs(m) ==
    /\ monitors[m].pc = "scanned"
    /\ monitors'[m].pc = "idle"

\* the scanned item is suspended or restricted, or has no limit
Exempt(view) ==
    view.status \in {"suspended", "restricted"} \/ view.budget_limit_usd = 0

\* a grace period is started or a suspension execution is triggered
GraceOrSuspensionStarts ==
    \/ budget' # budget
    \/ h_grace_started' # h_grace_started
    \/ \E e \in SuspExecs : susp'[e].pc = "SendGraceNotification"
                             /\ susp[e].pc # "SendGraceNotification"

\* C18: budget_monitor never starts a grace period and never triggers a
\* suspension for an item it read as suspended or restricted or with
\* budget_limit_usd 0; it does so only for an item outside these cases whose
\* spent_usd is 100% or more of budget_limit_usd.
C18_ExemptNotEnforced ==
    [][\A m \in Monitors :
          MonitorActs(m)
              => /\ Exempt(monitors[m].item)
                    => (budget' = budget /\ susp' = susp /\ h_grace_started' = h_grace_started)
                 /\ GraceOrSuspensionStarts
                    => /\ ~Exempt(monitors[m].item)
                       /\ monitors[m].item.spent_usd >= monitors[m].item.budget_limit_usd]_vars

C18_Witness ==
    \E m \in Monitors :
        /\ monitors[m].pc = "scanned"
        /\ monitors[m].item.status \in {"suspended", "restricted"}
        /\ monitors[m].item.budget_limit_usd > 0
        /\ monitors[m].item.spent_usd >= monitors[m].item.budget_limit_usd
        /\ h_grace_started = 0
        /\ \A e \in SuspExecs : susp[e].pc \in {"free", "off"}

----------------------------------------------------------------------------
(* Claims about the threshold state and the status under accrual *)

\* C19: once every update_user_budget call for the user has returned (the
\* call that created the item included, user_setup not having written),
\* the stored threshold_state is the classification of the stored spent_usd
\* against budget_limit_usd: critical from CriticalPercent, warning from
\* WarnPercent, normal below.
C19_ThresholdMatchesSpend ==
    (/\ budget.exists
     /\ h_puts = 0
     /\ budget.budget_limit_usd > 0
     /\ AccrualsFinished)
        => budget.threshold_state =
              ClassifyThreshold(budget.spent_usd, budget.budget_limit_usd)

\* an update_user_budget call takes a step
AccrualStep == \E c \in Calls : calls'[c] # calls[c]

\* C20: accrual never changes the enforcement status of an existing user:
\* a step of update_user_budget, the threshold-state update included, leaves
\* status and grace_deadline_epoch as they were, even when spent_usd reaches
\* or exceeds budget_limit_usd.
C20_AccrualKeepsStatus ==
    [][(AccrualStep /\ budget.exists)
          => /\ budget'.status = budget.status
             /\ budget'.grace_deadline_epoch = budget.grace_deadline_epoch]_vars

C20_Witness ==
    /\ h_initial.exists
    /\ AccrualsFinished
    /\ \E c \in Calls : calls[c].pc = "done"
    /\ budget.spent_usd > h_initial.spent_usd
    /\ budget.spent_usd >= budget.budget_limit_usd
    /\ budget.threshold_state # h_initial.threshold_state
    /\ budget.status = "active"
    /\ budget.grace_deadline_epoch = <<>>

----------------------------------------------------------------------------
(* Claims about the spend and about provisioning *)

\* C21: spent_usd is never negative and, between two period resets, never
\* decreases, under any interleaving of update_user_budget calls and
\* user_setup invocations (no step of these is a period reset).
C21_SpentMonotone ==
    /\ [](budget.spent_usd >= 0)
    /\ [][budget'.spent_usd >= budget.spent_usd]_vars

\* a user_setup invocation takes a step
SetupStep == \E s \in Setups : setups'[s] # setups[s]

\* C22: user_setup is idempotent: an invocation for a user that already has
\* an item, the item created concurrently by update_user_budget included,
\* leaves spent_usd, status and model_spend_breakdown of that item unchanged.
C22_SetupKeepsItem ==
    [][(SetupStep /\ budget.exists)
          => /\ budget'.spent_usd = budget.spent_usd
             /\ budget'.status = budget.status
             /\ budget'.model_spend_breakdown = budget.model_spend_breakdown]_vars

----------------------------------------------------------------------------
(* Claims about cost calculation *)

\* C23: calculate_cost_with_cache returns input * rateIn + output * rateOut +
\* cacheWrite * rateIn + cacheRead * (rateIn * 0.1), rates per 1000 tokens
\* (here in 1/10^10 dollar): cache writes at the full input rate, cache reads
\* at a tenth of it; 1000 input and 1000 output tokens at 0.003 / 0.015 cost
\* 0.018, and 1000 cache-read tokens add 0.0003.
C23_CostFormula ==
    pricing.pc = "done" =>
        LET rateIn == pricing.rates.input_tokens_per_1000
            rateOut == pricing.rates.output_tokens_per_1000
            base == (pricing.input_tokens * rateIn + pricing.output_tokens * rateOut
                     + pricing.cache_creation_tokens * rateIn) * 10
        IN /\ pricing.cost = base + pricing.cache_read_tokens * rateIn
           /\ (/\ pricing.rates = Rates(3000, 15000)
               /\ pricing.input_tokens = 1000
               /\ pricing.output_tokens = 1000
               /\ pricing.cache_creation_tokens = 0)
                 => /\ pricing.cache_read_tokens = 0 => pricing.cost = 180000000
                    /\ pricing.cache_read_tokens = 1000 => pricing.cost = 183000000

C23_Witness ==
    /\ pricing.pc = "done"
    /\ pricing.rates = Rates(3000, 15000)
    /\ pricing.input_tokens > 1
    /\ pricing.input_tokens = pricing.output_tokens
    /\ pricing.cache_creation_tokens = 0
    /\ pricing.cache_read_tokens = pricing.input_tokens
    /\ pricing.cost > 0

\* C24: cost calculation has no error path: whether the pricing table has the
\* item, has none or the lookup raises, get_model_pricing returns rates and
\* the cost is not negative; a model id that no key of the fallback table is
\* part of gets the default fallback rates (0.003 input, 0.015 output).
C24_AlwaysPriced ==
    pricing.pc \in {"calculate", "done"} =>
        /\ pricing.rates.input_tokens_per_1000 >= 0
        /\ pricing.rates.output_tokens_per_1000 >= 0
        /\ pricing.cost >= 0
        /\ (/\ pricing.source \in {"fallback", "error"}
            /\ pricing.model_id = <<"amazon.titan">>)
              => pricing.rates = Rates(3000, 15000)

C24_Witness ==
    /\ pricing.pc = "done"
    /\ pricing.source = "error"
    /\ pricing.model_id = <<"amazon.titan">>
    /\ pricing.rates = Rates(3000, 15000)
    /\ pricing.input_tokens > 0
    /\ pricing.cost > 0

----------------------------------------------------------------------------
(* Claims about the grace duration *)

\* an execution of the suspension state machine is started
SuspensionStarts(e) ==
    /\ susp[e].pc # "SendGraceNotification"
    /\ susp'[e].pc = "SendGraceNotification"

\* C27: once a grace period has begun, a change of the configured
\* grace_period_seconds changes neither the stored grace deadline nor the
\* duration the suspension execution handling that violation waits: the
\* execution started for an item in its grace period waits the seconds that
\* were configured when the grace period began
C27_GraceDurationFixed ==
    [][/\ grace_period_seconds' # grace_period_seconds =>
              /\ budget'.grace_deadline_epoch = budget.grace_deadline_epoch
              /\ \A e \in SuspExecs :
                    susp'[e].grace_period_seconds = susp[e].grace_period_seconds
       /\ \A e \in SuspExecs :
             (SuspensionStarts(e) /\ budget.status = "grace_period") =>
                 susp'[e].grace_period_seconds = h_grace_seconds]_vars

----------------------------------------------------------------------------
(* Claims about the records of an event *)

\* the cost of the call has been added to the ledger item
Accrued(c) ==
    \/ calls[c].pc \in {"classify", "done"}
    \/ calls[c].pc = "failed" /\ calls[c].response # NoResponse

\* the costs of the well-formed records among S
RECURSIVE WellFormedCost(_)
WellFormedCost(S) ==
    IF S = {} THEN 0
    ELSE LET i == CHOOSE x \in S : TRUE
         IN (IF event_records[i] = "ok" THEN calls[i].cost ELSE 0)
            + WellFormedCost(S \ {i})

\* the handler drops the record
DropStep(i) ==
    /\ calls[i].pc = "pending"
    /\ calls'[i].pc \in {"dropped", "skipped"}

\* C25: a malformed usage record of a batch is dropped without affecting the
\* others: dropping it changes no ledger item, and when the handler returns
\* every other record has been processed and its cost accrued
C25_MalformedDropped ==
    /\ [][\A i \in Calls : DropStep(i) => budget' = budget]_vars
    /\ [](handler.pc = "returned" =>
             /\ Len(handler.processed_records) = MaxCalls
             /\ \A i \in Calls : event_records[i] = "ok" <=> Accrued(i)
             /\ budget.spent_usd = h_initial.spent_usd + WellFormedCost(Calls))

\* the handler has returned from an event with a malformed record and a
\* well-formed record, whose cost is on the ledger
C25_Witness ==
    /\ handler.pc = "returned"
    /\ \E i, j \in Calls :
          /\ i < j
          /\ event_records[i] = "undecodable"
          /\ event_records[j] = "ok"
          /\ Accrued(j)
          /\ budget.spent_usd = h_initial.spent_usd + calls[j].cost

\* C26: the usage-tracking table is append-only with one record per processed
\* event: when the handler has returned there are as many usage records as
\* events whose cost was accrued, and no step removes or changes a record
C26_OneRecordPerAccrual ==
    /\ [](handler.pc = "returned" =>
             Cardinality(usage_tracking) = Cardinality({c \in Calls : Accrued(c)}))
    /\ [][usage_tracking \subseteq usage_tracking']_vars

----------------------------------------------------------------------------
(* Claims about the access state *)

\* C28: validate_restrictions answers from the IAM state alone whether the
\* principal is revoked: a validation after an apply_restriction that
\* returned 200 answers is_valid true, and one after a restore_access that
\* returned 200 answers false, also when the tagging call inside failed
C28_ValidationFollowsAccess ==
    iam_call.action = "validate_restrictions" =>
        /\ h_last_access = "apply_restriction" => iam_call.is_valid
        /\ h_last_access = "restore_access" => ~iam_call.is_valid

\* the item and the IAM state of the principal disagree
Inconsistent ==
    /\ budget.exists
    /\ \/ budget.status = "suspended" /\ iam.attached
       \/ budget.status = "active" /\ ~iam.attached

\* a state_reconciliation run
ReconciliationStep == published' # published

\* C29: when the item and the access state disagree, a state_reconciliation
\* run changes neither of them and emits a signal that names the principal
C29_ReconciliationSignals ==
    [][(ReconciliationStep /\ Inconsistent) =>
          /\ budget' = budget
          /\ iam' = iam
          /\ "PrincipalId" \in published'[Len(published')].Dimensions]_vars

----------------------------------------------------------------------------
(* Claims about the in-place reset of budget_refresh *)

\* C30: the in-place reset of budget_refresh modifies only an item whose
\* status is active at the moment of the write: an item that was read as
\* active and is in its grace period or suspended by then is left unchanged,
\* so no item is suspended with spent_usd 0 and its refresh date a full
\* period ahead
C30_ResetOnlyActive ==
    [][\A w \in Sweeps :
          RefreshActiveStep(w) =>
              /\ budget.status # "active" => budget' = budget
              /\ ~(/\ budget'.status = "suspended"
                   /\ budget'.spent_usd = 0
                   /\ budget'.budget_refresh_date =
                          budget'.budget_period_start + budget'.refresh_period_days)]_vars

----------------------------------------------------------------------------
(* Claims about the monitor and the executions it starts *)

\* C31: each grace-period initiation triggers exactly one execution of the
\* suspension state machine: the step of the monitor that begins a grace
\* period starts one execution, whose Wait times the grace period
C31_GraceStartsOneExecution ==
    [][GraceStartStep =>
          Cardinality({e \in SuspExecs : SuspensionStarts(e)}) = 1]_vars

\* C32: for an item over its limit whose grace deadline is set and still in
\* the future, a run of the monitor is a no-op: the item is not written, no
\* grace period is started and no suspension execution is triggered
C32_StillInGraceNoOp ==
    [][\A m \in Monitors :
          (/\ MonitorActs(m)
           /\ budget.status \notin {"suspended", "restricted"}
           /\ budget.budget_limit_usd > 0
           /\ budget.spent_usd >= budget.budget_limit_usd
           /\ budget.grace_deadline_epoch # <<>>
           /\ Now < budget.grace_deadline_epoch[1])
              => /\ budget' = budget
                 /\ susp' = susp
                 /\ h_grace_started' = h_grace_started]_vars

\* the monitor has scanned an item over its limit in its grace period, the
\* deadline still ahead
C32_Witness ==
    \E m \in Monitors :
        /\ monitors[m].pc = "scanned"
        /\ monitors[m].item.status = "grace_period"
        /\ budget.status = "grace_period"
        /\ budget.spent_usd >= budget.budget_limit_usd
        /\ budget.grace_deadline_epoch # <<>>
        /\ Now < budget.grace_deadline_epoch[1]

----------------------------------------------------------------------------
(* Claims about the restoration and the period after it *)

\* C33: the restoration state machine sets the status to active only after
\* the access has been restored: ResetBudgetStatus runs only in an execution
\* whose RestoreAccess returned 200, so no item is active while the policy
\* is still detached
C33_ActiveOnlyAfterGrant ==
    /\ [][\A r \in RestExecs : ResetStep(r) => rests[r].restore_result = 200]_vars
    /\ [](budget.status = "active" => iam.attached)

\* C34: after a suspension and a restoration, a new exhaustion of the budget
\* starts a fresh grace period: for an item it read as active and over its
\* limit the monitor sets status grace_period with the deadline
\* grace_period_seconds ahead and triggers no suspension execution
C34_FreshGracePeriod ==
    [][\A m \in Monitors :
          (/\ MonitorActs(m)
           /\ monitors[m].item.status = "active"
           /\ monitors[m].item.budget_limit_usd > 0
           /\ monitors[m].item.spent_usd >= monitors[m].item.budget_limit_usd)
              => /\ \A e \in SuspExecs : ~SuspensionStarts(e)
                 /\ budget'.status = "grace_period"
                 /\ budget'.grace_deadline_epoch = <<Now + grace_period_seconds>>]_vars

----------------------------------------------------------------------------
(* Claims about failed records and the spend breakdown *)

\* C35: a record reported as ProcessingFailed has left the ledger
\* unchanged: its cost has not been added to spent_usd
C35_FailedNotCharged ==
    \A i \in 1..Len(handler.processed_records) :
        handler.processed_records[i] = "ProcessingFailed" => ~Accrued(i)


\* the total of the spend attributed to the models
RECURSIVE BreakdownTotal(_, _)
BreakdownTotal(breakdown, S) ==
    IF S = {} THEN 0
    ELSE LET m == CHOOSE x \in S : TRUE
         IN breakdown[m] + BreakdownTotal(breakdown, S \ {m})

\* C36: in every state the values of model_spend_breakdown add up to
\* spent_usd, also after a reset of the period
C36_BreakdownSumsToSpent ==
    budget.exists =>
        BreakdownTotal(budget.model_spend_breakdown, Models) = budget.spent_usd


----------------------------------------------------------------------------
(* Claims about the refresh sweep and the pricing cache *)

\* C37: an item that budget_refresh read with status grace_period and a
\* refresh date that has passed is left unchanged by the sweep, which starts
\* no restoration for it; the sweep acts only on items it read as suspended
\* or active
C37_SweepSkipsGracePeriod ==
    [][\A w \in Sweeps :
          (/\ sweeps[w].pc = "scanned"
           /\ sweeps'[w].pc = "idle"
           /\ sweeps[w].item.status \notin {"suspended", "active"})
              => /\ budget' = budget
                 /\ rests' = rests
                 /\ published' = published]_vars

C37_Witness ==
    \E w \in Sweeps :
        /\ sweeps[w].pc = "scanned"
        /\ sweeps[w].item.status = "grace_period"
        /\ RefreshDue(w)
        /\ budget.status = "grace_period"
        /\ budget.spent_usd > 0


\* C38: get_model_pricing never returns a cache entry more than 300 seconds
\* after that entry was read from the pricing table, whatever other pairs
\* were cached in between; rates that come from neither the cache nor the
\* table are the static fallback rates
C38_CacheEntryFresh ==
    [][/\ (pricing.pc = "get_model_pricing" /\ pricing'.source = "cache")
            => Now - h_fetched_at[CacheKey(pricing.model_id, pricing.region)][1] <= CacheTtl
       /\ (pricing.pc = "get_model_pricing" /\ pricing'.source \in {"fallback", "error"})
            => pricing'.rates = GetFallbackPricing(pricing.model_id)]_vars

====
